---- MODULE Spec2Model ----
(***************************************************************************)
(* Model of the evidence-grounded wiki generation pipeline of              *)
(* challenge-cubic: citation linking (lib/citations), evidence mapping and *)
(* page drafting (lib/ai/pipeline.ts) and the POST /api/analyze handler.   *)
(*                                                                         *)
(* Strings are sequences of one-character strings, so that trimming,       *)
(* lowercasing, number parsing/formatting and line counting are computed   *)
(* and not assumed.  Scores are kept in tenths (1.4 is 14, 0.4 is 4).      *)
(***************************************************************************)
EXTENDS Integers, Sequences, FiniteSets, TLC

VARIABLES
    citeIn,      \* parseAndLinkCitations: input {markdown, sha, lineCountsByPath}
    citeOut,     \* parseAndLinkCitations: {done, markdown, citations}
    mapIn,       \* evidence mapping of one subsystem: {subsystem, files, scored}
    mapPc,       \* its position: "start", "awaiting" (generateText), "done"
    mapGen,      \* the evidence list the generation call returned
    mapOut,      \* its outcome: a SubsystemEvidence or a thrown error
    sigIn,       \* selectSignalPathsWithAI: params.treePaths
    sigPc,       \* its position: "start", "awaiting" (generateText), "done"
    sigGen,      \* result.output.paths of its generation call
    sigCalls,    \* number of generation calls it has issued
    sigOut,      \* its outcome: the selected paths or a thrown error
    extPc,       \* extractSubsystems: "awaiting" (generateText), "done"
    extGen,      \* result.output of its generation call
    extOut,      \* its outcome: the SubsystemList or a thrown error
    kv,          \* the Redis store: records by cache key, latest key and
                 \* recency score by repository key
    kvBefore,    \* the store as the request being served found it
    clock,       \* the wall clock read by new Date()
    served,      \* number of POST /api/analyze requests received
    pc,          \* the handler's position: "idle", "signal", "extract",
                 \* "map", "draft"
    req,         \* the request being served: {headSha, forceRefresh}
    cleanedPaths, \* cleanTreePaths(...) of the run
    signalPaths, \* signalSelection.paths
    extracted,   \* the SubsystemList of the run
    selected,    \* selectedPathsBySubsystem, by subsystem index
    evidenceFiles, \* the files fetched for the evidence paths
    lineCounts,  \* getLineCountByPath(evidenceFiles)
    mapRun,      \* mapEvidenceForSubsystems: one promise per subsystem
    draftRun,    \* draftWikiPages: one promise per subsystem
    calls,       \* the generation calls issued by the run, in order
    response,    \* the response to the last request
    scoreIn,     \* scoreSubsystemRelevantPaths: {subsystem, treePaths, maxFiles}
    scoreOut,    \* the lists its calls on scoreIn returned, in call order
    winIn,       \* buildNumberedContextWindow: {content, maxLines, headLines,
                 \* tailLines}
    winOut,      \* the texts returned for winIn: the window, then the whole
                 \* numbering
    filterIn,    \* cleanTreePaths: the raw path list
    filterOut,   \* what it returned for filterIn, then for its own result
    fetchIn,     \* getSelectedFileContents: {paths, maxRetries, concurrency}
    cursor,      \* its shared cursor into uniquePaths (0-based)
    collected,   \* its result slots, one per unique path: <<>> is null
    workers,     \* its worker loops: {at, index, attempt} each
    fetchLog,    \* per unique path, how each finished fetch attempt ended
    claimed,     \* the indexes the workers took from the cursor, in order
    fetchOut,    \* how the call settled: nothing yet, a list or an error
    writers      \* concurrent runs about to store their record: {at, record}

citeVars == <<citeIn, citeOut>>
mapVars == <<mapIn, mapPc, mapGen, mapOut>>
sigVars == <<sigIn, sigPc, sigGen, sigCalls, sigOut>>
extVars == <<extPc, extGen, extOut>>
runVars == <<kv, kvBefore, clock, served, pc, req, cleanedPaths, signalPaths, extracted,
             selected, evidenceFiles, lineCounts, mapRun, draftRun, calls,
             response>>
scoreVars == <<scoreIn, scoreOut>>
winVars == <<winIn, winOut>>
filterVars == <<filterIn, filterOut>>
fetchVars == <<fetchIn, cursor, collected, workers, fetchLog, claimed, fetchOut>>
exceptCite == <<mapVars, sigVars, extVars, runVars, scoreVars, winVars, filterVars, fetchVars, writers>>
exceptMap == <<citeVars, sigVars, extVars, runVars, scoreVars, winVars, filterVars, fetchVars, writers>>
exceptSig == <<citeVars, mapVars, extVars, runVars, scoreVars, winVars, filterVars, fetchVars, writers>>
exceptExt == <<citeVars, mapVars, sigVars, runVars, scoreVars, winVars, filterVars, fetchVars, writers>>
exceptRun == <<citeVars, mapVars, sigVars, extVars, scoreVars, winVars, filterVars, fetchVars, writers>>
exceptScore == <<citeVars, mapVars, sigVars, extVars, runVars, winVars, filterVars, fetchVars, writers>>
exceptWin == <<citeVars, mapVars, sigVars, extVars, runVars, scoreVars, filterVars, fetchVars, writers>>
exceptFilter == <<citeVars, mapVars, sigVars, extVars, runVars, scoreVars, winVars,
                  fetchVars, writers>>
exceptFetch == <<citeVars, mapVars, sigVars, extVars, runVars, scoreVars, winVars,
                 filterVars, writers>>
exceptStore == <<citeVars, mapVars, sigVars, extVars, scoreVars, winVars, filterVars,
                 fetchVars, kvBefore, served, pc, req, cleanedPaths, signalPaths,
                 extracted, selected, evidenceFiles, lineCounts, mapRun, draftRun,
                 calls, response>>
vars == <<citeVars, mapVars, sigVars, extVars, runVars, scoreVars, winVars,
          filterVars, fetchVars, writers>>

-----------------------------------------------------------------------------
(* Bounds of the model *)

MaxMarkdownTokens == 3
MaxModelItems == 2
MaxSignalAnswer == 3
MaxSubsystems == 3
MaxRequests == 2

-----------------------------------------------------------------------------
(* String primitives (JavaScript String methods used by the code) *)

Min(a, b) == IF a <= b THEN a ELSE b
Max(a, b) == IF a >= b THEN a ELSE b

Range(s) == { s[i] : i \in 1..Len(s) }

UpperChars == <<"A","B","C","D","E","F","G","H","I","J","K","L","M",
                "N","O","P","Q","R","S","T","U","V","W","X","Y","Z">>
LowerChars == <<"a","b","c","d","e","f","g","h","i","j","k","l","m",
                "n","o","p","q","r","s","t","u","v","w","x","y","z">>
DigitChars == <<"0","1","2","3","4","5","6","7","8","9">>

WhitespaceChars == {" ", "\t", "\n"}

\* String.prototype.toLowerCase on one character
LowerChar(c) ==
    IF \E i \in 1..26 : UpperChars[i] = c
    THEN LowerChars[CHOOSE i \in 1..26 : UpperChars[i] = c]
    ELSE c

toLowerCase(s) == [i \in 1..Len(s) |-> LowerChar(s[i])]

\* String.prototype.trim: strips leading and trailing whitespace
RECURSIVE TrimLeft(_)
TrimLeft(s) ==
    IF s # <<>> /\ Head(s) \in WhitespaceChars THEN TrimLeft(Tail(s)) ELSE s

RECURSIVE TrimRight(_)
TrimRight(s) ==
    IF s # <<>> /\ s[Len(s)] \in WhitespaceChars
    THEN TrimRight(SubSeq(s, 1, Len(s) - 1))
    ELSE s

trim(s) == TrimRight(TrimLeft(s))

DigitValue(c) == (CHOOSE i \in 1..10 : DigitChars[i] = c) - 1

\* Number.parseInt(raw, 10) on a match of \d+
RECURSIVE parseInt(_)
parseInt(raw) ==
    IF raw = <<>> THEN 0
    ELSE 10 * parseInt(SubSeq(raw, 1, Len(raw) - 1)) + DigitValue(raw[Len(raw)])

\* `${n}` for a non-negative integer
RECURSIVE numberToString(_)
numberToString(n) ==
    IF n < 10 THEN <<DigitChars[n + 1]>>
    ELSE numberToString(n \div 10) \o <<DigitChars[(n % 10) + 1]>>

\* content.split(sep): the segments between occurrences of the character sep
RECURSIVE split(_, _)
split(s, sep) ==
    IF \A i \in 1..Len(s) : s[i] # sep THEN <<s>>
    ELSE LET k == CHOOSE i \in 1..Len(s) :
                      s[i] = sep /\ \A j \in 1..(i - 1) : s[j] # sep
         IN  <<SubSeq(s, 1, k - 1)>> \o split(SubSeq(s, k + 1, Len(s)), sep)

\* parts.join(sep)
RECURSIVE join(_, _)
join(parts, sep) ==
    IF parts = <<>> THEN <<>>
    ELSE IF Len(parts) = 1 THEN parts[1]
    ELSE parts[1] \o <<sep>> \o join(Tail(parts), sep)

\* array.filter(pred) for a sequence and a set of kept values' indices
RECURSIVE SelectIdx(_, _, _)
SelectIdx(s, keep, i) ==
    IF i > Len(s) THEN <<>>
    ELSE (IF i \in keep THEN <<s[i]>> ELSE <<>>) \o SelectIdx(s, keep, i + 1)

\* [...new Set(array)]: the first occurrence of every element, in order
Dedupe(s) ==
    SelectIdx(s, { i \in 1..Len(s) : \A j \in 1..(i - 1) : s[j] # s[i] }, 1)

\* Map lookup: Map.get(key) is undefined (modelled 0, both falsy) when absent
MapGet(m, key) == IF key \in DOMAIN m THEN m[key] ELSE 0

-----------------------------------------------------------------------------
(* lib/citations/line-numbering.ts *)

countLines(content) == Len(split(content, "\n"))

\* s.padStart(n, c)
padStart(s, n, c) ==
    IF Len(s) >= n THEN s ELSE [i \in 1..(n - Len(s)) |-> c] \o s

formatNumberedLine(lineNumber, line) ==
    padStart(numberToString(lineNumber), 5, " ") \o <<" ","|"," ">> \o line

toNumberedContent(content) ==
    LET lines == split(content, "\n")
    IN  join([i \in 1..Len(lines) |-> formatNumberedLine(i, lines[i])], "\n")

\* (mutation: the tail is numbered on from the head instead of from tailStart)
buildNumberedContextWindowRebased(content, maxLines, headLines, tailLines) ==
    LET lines == split(content, "\n")
        total == Len(lines)
        headEnd == Min(headLines, total)
        tailStart == Max(total - tailLines + 1, headEnd + 1)
        head == [i \in 1..headEnd |-> formatNumberedLine(i, lines[i])]
        tail == [i \in 1..(total - tailStart + 1) |->
                   formatNumberedLine(headEnd + i, lines[tailStart + i - 1])]
        marker == <<".",".","."," ","(">> \o numberToString(tailStart - headEnd - 1)
                    \o <<" ","l","i","n","e","s"," ","o","m","i","t","t","e","d",")"," ",".",".",".">>
    IN  IF total <= maxLines
        THEN join([i \in 1..total |-> formatNumberedLine(i, lines[i])], "\n")
        ELSE join(head \o <<marker>> \o tail, "\n")

\* (mutation: the marker counts one line more than is left out)
buildNumberedContextWindowMiscounted(content, maxLines, headLines, tailLines) ==
    LET lines == split(content, "\n")
        total == Len(lines)
        headEnd == Min(headLines, total)
        tailStart == Max(total - tailLines + 1, headEnd + 1)
        head == [i \in 1..headEnd |-> formatNumberedLine(i, lines[i])]
        tail == [i \in 1..(total - tailStart + 1) |->
                   formatNumberedLine(tailStart + i - 1, lines[tailStart + i - 1])]
        marker == <<".",".","."," ","(">> \o numberToString(tailStart - headEnd)
                    \o <<" ","l","i","n","e","s"," ","o","m","i","t","t","e","d",")"," ",".",".",".">>
    IN  IF total <= maxLines
        THEN join([i \in 1..total |-> formatNumberedLine(i, lines[i])], "\n")
        ELSE join(head \o <<marker>> \o tail, "\n")

buildNumberedContextWindow(content, maxLines, headLines, tailLines) ==
    LET lines == split(content, "\n")
        total == Len(lines)
        headEnd == Min(headLines, total)
        tailStart == Max(total - tailLines + 1, headEnd + 1)
        head == [i \in 1..headEnd |-> formatNumberedLine(i, lines[i])]
        tail == [i \in 1..(total - tailStart + 1) |->
                   formatNumberedLine(tailStart + i - 1, lines[tailStart + i - 1])]
        marker == <<".",".","."," ","(">> \o numberToString(tailStart - headEnd - 1)
                    \o <<" ","l","i","n","e","s"," ","o","m","i","t","t","e","d",")"," ",".",".",".">>
    IN  IF total <= maxLines
        THEN join([i \in 1..total |-> formatNumberedLine(i, lines[i])], "\n")
        ELSE join(head \o <<marker>> \o tail, "\n")

-----------------------------------------------------------------------------
(* lib/citations/permalink.ts *)

\* encodeURIComponent on one character of the model's alphabet
UnreservedChars ==
    Range(UpperChars) \cup Range(LowerChars) \cup Range(DigitChars)
        \cup {"-", "_", ".", "!", "~", "*", "'", "(", ")"}

encodeURIComponentChar(c) ==
    IF c \in UnreservedChars THEN <<c>>
    ELSE IF c = " " THEN <<"%", "2", "0">>
    ELSE IF c = "/" THEN <<"%", "2", "F">>
    ELSE IF c = "#" THEN <<"%", "2", "3">>
    ELSE <<"%", c>>

RECURSIVE encodeURIComponent(_)
encodeURIComponent(s) ==
    IF s = <<>> THEN <<>>
    ELSE encodeURIComponentChar(Head(s)) \o encodeURIComponent(Tail(s))

\* (mutation: the range suffix is written for a single line too)
buildGitHubPermalinkAlwaysRange(owner, repo, sha, path, startLine, endLine) ==
    LET segments == split(path, "/")
        encodedPath ==
            join([i \in 1..Len(segments) |-> encodeURIComponent(segments[i])], "/")
    IN  <<"h","t","t","p","s",":","/","/","g","i","t","h","u","b",".","c","o","m","/">> \o owner \o <<"/">> \o repo \o <<"/","b","l","o","b","/">>
            \o sha \o <<"/">> \o encodedPath
            \o <<"#","L">> \o numberToString(startLine) \o <<"-","L">> \o numberToString(endLine)

buildGitHubPermalink(owner, repo, sha, path, startLine, endLine) ==
    LET segments == split(path, "/")
        encodedPath ==
            join([i \in 1..Len(segments) |-> encodeURIComponent(segments[i])], "/")
        lineAnchor ==
            IF endLine # 0 /\ endLine > startLine
            THEN <<"#","L">> \o numberToString(startLine) \o <<"-","L">> \o numberToString(endLine)
            ELSE <<"#","L">> \o numberToString(startLine)
    IN  <<"h","t","t","p","s",":","/","/","g","i","t","h","u","b",".","c","o","m","/">> \o owner \o <<"/">> \o repo \o <<"/","b","l","o","b","/">>
            \o sha \o <<"/">> \o encodedPath \o lineAnchor

-----------------------------------------------------------------------------
(* lib/citations/parser.ts *)

\* A markdown text is the sequence of its pieces: the matches of
\* CITE_MARKER_REGEX (with the three captured groups) and the text between.
TextPiece(t) == [kind |-> "text", text |-> t]
CiteMarker(pathRaw, startRaw, endRaw) ==
    [kind |-> "cite", pathRaw |-> pathRaw, startRaw |-> startRaw, endRaw |-> endRaw]

\* The replace callback's verdict on one marker
MarkerPath(m) == trim(m.pathRaw)
MarkerStart(m) == parseInt(m.startRaw)
MarkerEnd(m) == parseInt(m.endRaw)

\* (mutation: the upper bound against the true line count is not checked)
MarkerValidNoUpperBound(m, lineCountsByPath) ==
    LET maxLines == MapGet(lineCountsByPath, MarkerPath(m))
    IN  /\ maxLines # 0
        /\ ~ ( \/ MarkerStart(m) <= 0
               \/ MarkerEnd(m) < MarkerStart(m) )

MarkerValid(m, lineCountsByPath) ==
    LET maxLines == MapGet(lineCountsByPath, MarkerPath(m))
    IN  /\ maxLines # 0
        /\ ~ ( \/ MarkerStart(m) <= 0
               \/ MarkerEnd(m) < MarkerStart(m)
               \/ MarkerEnd(m) > maxLines )

MarkerCitation(m, owner, repo, sha) ==
    [ path |-> MarkerPath(m),
      startLine |-> MarkerStart(m),
      endLine |-> MarkerEnd(m),
      url |-> buildGitHubPermalink(owner, repo, sha, MarkerPath(m),
                                   MarkerStart(m), MarkerEnd(m)) ]

MarkerLink(m, owner, repo, sha) ==
    TextPiece(<<"[">> \o MarkerPath(m) \o <<":">> \o numberToString(MarkerStart(m))
                \o <<"-">> \o numberToString(MarkerEnd(m)) \o <<"]","(">>
                \o MarkerCitation(m, owner, repo, sha).url \o <<")">>)

\* (mutation: the key leaves out the line range)
DedupeKeyPathOnly(c) == c.path

\* `${path}:${startLine}:${endLine}`
DedupeKey(c) ==
    c.path \o <<":">> \o numberToString(c.startLine) \o <<":">> \o numberToString(c.endLine)

RECURSIVE LinkFrom(_, _, _, _, _, _, _)
LinkFrom(pieces, lineCountsByPath, owner, repo, sha, citations, linked) ==
    IF pieces = <<>> THEN [markdown |-> linked, citations |-> citations]
    ELSE
      LET p == Head(pieces)
          seen == { DedupeKey(citations[i]) : i \in 1..Len(citations) }
      IN  IF p.kind = "text"
          THEN LinkFrom(Tail(pieces), lineCountsByPath, owner, repo, sha,
                        citations, Append(linked, p))
          ELSE IF ~ MarkerValid(p, lineCountsByPath)
          THEN LinkFrom(Tail(pieces), lineCountsByPath, owner, repo, sha,
                        citations, Append(linked, TextPiece(<<>>)))
          ELSE LET c == MarkerCitation(p, owner, repo, sha)
               IN  LinkFrom(Tail(pieces), lineCountsByPath, owner, repo, sha,
                            IF DedupeKey(c) \in seen THEN citations
                            ELSE Append(citations, c),
                            Append(linked, MarkerLink(p, owner, repo, sha)))

parseAndLinkCitations(markdown, owner, repo, sha, lineCountsByPath) ==
    LinkFrom(markdown, lineCountsByPath, owner, repo, sha, <<>>, <<>>)

-----------------------------------------------------------------------------
(* lib/github/filters.ts *)

BINARY_EXTENSIONS ==
    {
      <<"p","n","g">>, <<"j","p","g">>, <<"j","p","e","g">>,
      <<"g","i","f">>, <<"i","c","o">>, <<"w","e","b","p">>,
      <<"p","d","f">>, <<"z","i","p">>, <<"t","a","r">>,
      <<"g","z">>, <<"m","p","3">>, <<"m","p","4">>,
      <<"m","o","v">>, <<"w","a","s","m">>, <<"e","x","e">>,
      <<"d","l","l">> }

SKIP_DIR_SEGMENTS ==
    {
      <<"n","o","d","e","_","m","o","d","u","l","e","s">>, <<".","a","g","e","n","t","s">>,
      <<".","c","l","a","u","d","e">>, <<".","n","e","x","t">>,
      <<"d","i","s","t">>, <<"b","u","i","l","d">>,
      <<"c","o","v","e","r","a","g","e">>, <<".","c","o","v","e","r","a","g","e">>,
      <<".","g","i","t">>, <<".","t","u","r","b","o">>,
      <<".","c","a","c","h","e">>, <<"v","e","n","d","o","r">>,
      <<"t","e","s","t">>, <<"t","e","s","t","s">>,
      <<"_","_","t","e","s","t","s","_","_">> }

LOCKFILE_NAMES ==
    {
      <<"p","a","c","k","a","g","e","-","l","o","c","k",".","j","s","o","n">>,
      <<"y","a","r","n",".","l","o","c","k">>,
      <<"p","n","p","m","-","l","o","c","k",".","y","a","m","l">>,
      <<"b","u","n",".","l","o","c","k","b">>,
      <<"C","a","r","g","o",".","l","o","c","k">>,
      <<"c","o","m","p","o","s","e","r",".","l","o","c","k">> }

\* fileName.includes(".") ? fileName.split(".").pop().toLowerCase() : ""
ExtensionOf(name) ==
    IF "." \in Range(name)
    THEN LET parts == split(name, ".") IN toLowerCase(parts[Len(parts)])
    ELSE <<>>

shouldIncludePath(path) ==
    IF path = <<>> \/ path[Len(path)] = "/" THEN FALSE
    ELSE LET segments == split(path, "/")
             fileName == segments[Len(segments)]
             extension == ExtensionOf(fileName)
         IN  /\ ~ \E i \in 1..Len(segments) : segments[i] \in SKIP_DIR_SEGMENTS
             /\ fileName \notin LOCKFILE_NAMES
             /\ ~ (extension # <<>> /\ extension \in BINARY_EXTENSIONS)

\* array.filter(shouldIncludePath)
FilterIncluded(paths) ==
    SelectIdx(paths, { i \in 1..Len(paths) : shouldIncludePath(paths[i]) }, 1)

cleanTreePaths(paths) ==
    LET unique == Dedupe(paths)
        trimmed == [i \in 1..Len(unique) |-> trim(unique[i])]
        nonEmpty == SelectIdx(trimmed, { i \in 1..Len(trimmed) : Len(trimmed[i]) > 0 }, 1)
    IN  FilterIncluded(nonEmpty)

-----------------------------------------------------------------------------
(* lib/ai/pipeline.ts: the evidence scorer; scores are in tenths *)

MAX_FILES_PER_SUBSYSTEM == 8
SCORE_EXACT_RELEVANT == 120
SCORE_EXACT_ENTRY == 100
SCORE_PER_TOKEN == 14
SCORE_ID_IN_PATH == 30
SCORE_NAME_IN_PATH == 20
WEIGHT_SOURCE == 20
WEIGHT_DOC == 5
WEIGHT_OTHER == 10
MIN_TOKEN_LENGTH == 3

AlphaNumChars == Range(LowerChars) \cup Range(DigitChars)

\* input.toLowerCase().split(/[^a-z0-9]+/g).filter(token => token.length >= 3):
\* the maximal runs of [a-z0-9] of the lowercased input, in order, that are
\* at least three characters long
tokenize(input) ==
    LET s == toLowerCase(input)
        InRun(i) == s[i] \in AlphaNumChars
        starts == { i \in 1..Len(s) : InRun(i) /\ (i = 1 \/ ~ InRun(i - 1)) }
        EndOf(i) == CHOOSE j \in i..Len(s) :
                        /\ (j = Len(s) \/ ~ InRun(j + 1))
                        /\ \A k \in i..j : InRun(k)
        kept == { i \in starts : EndOf(i) - i + 1 >= MIN_TOKEN_LENGTH }
        Nth(n) == CHOOSE i \in kept : Cardinality({ j \in kept : j < i }) = n - 1
    IN  [n \in 1..Cardinality(kept) |-> SubSeq(s, Nth(n), EndOf(Nth(n)))]

buildSubsystemKeywords(subsystem) ==
    LET raw == join(<<subsystem.id, subsystem.name, subsystem.description,
                      subsystem.userJourney>>
                    \o subsystem.relevantPaths \o subsystem.entryPoints, " ")
    IN  Range(tokenize(raw))

SOURCE_EXTENSIONS ==
    {
      <<"t","s">>, <<"t","s","x">>, <<"j","s">>, <<"j","s","x">>,
      <<"p","y">>, <<"g","o">>, <<"r","s">>, <<"j","a","v","a">>,
      <<"k","t">>, <<"r","b">>, <<"p","h","p">> }

DOC_EXTENSIONS ==
    {
      <<"m","d">>, <<"m","d","x">>, <<"y","a","m","l">>, <<"y","m","l">>, <<"j","s","o","n">> }

\* (mutation: a path without an extension is weighted like any other)
extensionWeightNeverZero(path) ==
    LET extension == ExtensionOf(path)
    IN  IF extension \in SOURCE_EXTENSIONS THEN WEIGHT_SOURCE
        ELSE IF extension \in DOC_EXTENSIONS THEN WEIGHT_DOC
        ELSE WEIGHT_OTHER

\* path.includes(".") ? path.split(".").pop()?.toLowerCase() : ""
extensionWeight(path) ==
    LET extension == ExtensionOf(path)
    IN  IF extension = <<>> THEN 0
        ELSE IF extension \in SOURCE_EXTENSIONS THEN WEIGHT_SOURCE
        ELSE IF extension \in DOC_EXTENSIONS THEN WEIGHT_DOC
        ELSE WEIGHT_OTHER

\* haystack.includes(needle)
Includes(haystack, needle) ==
    \E i \in 0..(Len(haystack) - Len(needle)) :
        SubSeq(haystack, i + 1, i + Len(needle)) = needle

\* s.replace(/\s+/g, "-")
RECURSIVE HyphenateSpaces(_, _)
HyphenateSpaces(s, inRun) ==
    IF s = <<>> THEN <<>>
    ELSE IF Head(s) \in WhitespaceChars
         THEN (IF inRun THEN <<>> ELSE <<"-">>) \o HyphenateSpaces(Tail(s), TRUE)
         ELSE <<Head(s)>> \o HyphenateSpaces(Tail(s), FALSE)

\* (mutation: a token occurring twice in the path is counted once)
PathScoreDistinctTokens(subsystem, keywords, path) ==
    LET normalized == toLowerCase(path)
        pathTokens == tokenize(path)
    IN  (IF path \in Range(subsystem.relevantPaths) THEN SCORE_EXACT_RELEVANT ELSE 0)
        + (IF path \in Range(subsystem.entryPoints) THEN SCORE_EXACT_ENTRY ELSE 0)
        + SCORE_PER_TOKEN * Cardinality(Range(pathTokens) \cap keywords)
        + (IF Includes(normalized, toLowerCase(subsystem.id))
           THEN SCORE_ID_IN_PATH ELSE 0)
        + (IF Includes(normalized, HyphenateSpaces(toLowerCase(subsystem.name), FALSE))
           THEN SCORE_NAME_IN_PATH ELSE 0)
        + extensionWeight(path)

PathScore(subsystem, keywords, path) ==
    LET normalized == toLowerCase(path)
        pathTokens == tokenize(path)
    IN  (IF path \in Range(subsystem.relevantPaths) THEN SCORE_EXACT_RELEVANT ELSE 0)
        + (IF path \in Range(subsystem.entryPoints) THEN SCORE_EXACT_ENTRY ELSE 0)
        + SCORE_PER_TOKEN
            * Cardinality({ i \in 1..Len(pathTokens) : pathTokens[i] \in keywords })
        + (IF Includes(normalized, toLowerCase(subsystem.id))
           THEN SCORE_ID_IN_PATH ELSE 0)
        + (IF Includes(normalized, HyphenateSpaces(toLowerCase(subsystem.name), FALSE))
           THEN SCORE_NAME_IN_PATH ELSE 0)
        + extensionWeight(path)

\* a.localeCompare(b) < 0 on the model's alphabet: punctuation, then digits,
\* then letters; case decides only between otherwise equal strings
CollationChars ==
    <<" ", "_", "-", ".", "/">> \o DigitChars \o LowerChars

CollationRank(c) ==
    CHOOSE i \in 1..Len(CollationChars) : CollationChars[i] = LowerChar(c)

RECURSIVE RanksBefore(_, _)
RanksBefore(a, b) ==
    IF a = <<>> THEN b # <<>>
    ELSE IF b = <<>> THEN FALSE
    ELSE IF CollationRank(Head(a)) # CollationRank(Head(b))
         THEN CollationRank(Head(a)) < CollationRank(Head(b))
         ELSE RanksBefore(Tail(a), Tail(b))

RECURSIVE LowerCaseFirst(_, _)
LowerCaseFirst(a, b) ==
    IF a = <<>> \/ b = <<>> THEN FALSE
    ELSE IF Head(a) # Head(b) THEN Head(a) = LowerChar(Head(a))
    ELSE LowerCaseFirst(Tail(a), Tail(b))

LocaleBefore(a, b) ==
    \/ RanksBefore(a, b)
    \/ (~ RanksBefore(b, a) /\ LowerCaseFirst(a, b))

\* (mutation: equal scores are not told apart by the path)
RanksNoLaterByScoreOnly(a, b) == a.score >= b.score

\* (mutation: the lower score comes first)
RanksNoLaterAscendingScore(a, b) ==
    \/ a.score < b.score
    \/ (a.score = b.score /\ ~ LocaleBefore(b.path, a.path))

\* the comparator b.score - a.score || a.path.localeCompare(b.path), as
\* "a is not placed after b"
RanksNoLater(a, b) ==
    \/ a.score > b.score
    \/ (a.score = b.score /\ ~ LocaleBefore(b.path, a.path))

RECURSIVE InsertRanked(_, _)
InsertRanked(sorted, x) ==
    IF sorted = <<>> THEN <<x>>
    ELSE IF RanksNoLater(Head(sorted), x)
         THEN <<Head(sorted)>> \o InsertRanked(Tail(sorted), x)
         ELSE <<x>> \o sorted

RECURSIVE SortRanked(_)
SortRanked(s) ==
    IF s = <<>> THEN <<>>
    ELSE InsertRanked(SortRanked(SubSeq(s, 1, Len(s) - 1)), s[Len(s)])

\* (mutation: the list is cut to maxFiles before it is sorted)
scoreSubsystemRelevantPathsCutFirst(subsystem, treePaths, maxFilesParam) ==
    LET maxFiles == IF maxFilesParam = <<>> THEN MAX_FILES_PER_SUBSYSTEM
                    ELSE maxFilesParam[1]
        keywords == buildSubsystemKeywords(subsystem)
        all == [i \in 1..Len(treePaths) |->
                  [path |-> treePaths[i],
                   score |-> PathScore(subsystem, keywords, treePaths[i])]]
        positive == SelectIdx(all, { i \in 1..Len(all) : all[i].score > 0 }, 1)
    IN  SortRanked(SubSeq(positive, 1, IF maxFiles <= Len(positive) THEN maxFiles
                                       ELSE Len(positive)))

\* params.maxFiles is optional: <<>> when absent, <<n>> when given
scoreSubsystemRelevantPaths(subsystem, treePaths, maxFilesParam) ==
    LET maxFiles == IF maxFilesParam = <<>> THEN MAX_FILES_PER_SUBSYSTEM
                    ELSE maxFilesParam[1]
        keywords == buildSubsystemKeywords(subsystem)
        all == [i \in 1..Len(treePaths) |->
                  [path |-> treePaths[i],
                   score |-> PathScore(subsystem, keywords, treePaths[i])]]
        scored == SortRanked(SelectIdx(all, { i \in 1..Len(all) : all[i].score > 0 }, 1))
    IN  SubSeq(scored, 1, IF maxFiles <= Len(scored) THEN maxFiles ELSE Len(scored))

-----------------------------------------------------------------------------
(* lib/ai/pipeline.ts: evidence mapping of one subsystem *)

MAX_EVIDENCE_ITEMS_PER_SUBSYSTEM == 8
FALLBACK_MAX_FILES == 3
FALLBACK_MAX_END_LINE == 40
FALLBACK_SCORE_TENTHS == 4

\* array.filter(pred), pred given as the set of kept elements' indices
FilterSeq(s, keep) == SelectIdx(s, keep, 1)

\* array.slice(0, n)
SliceTo(s, n) == SubSeq(s, 1, Min(n, Len(s)))

\* new Map(files.map(file => [file.path, file])): a later entry replaces an
\* earlier one of the same path
fileByPath(files) ==
    [ p \in { files[i].path : i \in 1..Len(files) } |->
        files[CHOOSE i \in 1..Len(files) :
                 /\ files[i].path = p
                 /\ \A j \in (i + 1)..Len(files) : files[j].path # p] ]

getLineCountByPath(files) ==
    LET byPath == fileByPath(files)
    IN  [ p \in DOMAIN byPath |-> countLines(byPath[p].content) ]

\* array.sort((a, b) => b.score - a.score): stable, descending by score
RECURSIVE InsertByScore(_, _)
InsertByScore(sorted, x) ==
    IF sorted = <<>> THEN <<x>>
    ELSE IF Head(sorted).score >= x.score
         THEN <<Head(sorted)>> \o InsertByScore(Tail(sorted), x)
         ELSE <<x>> \o sorted

RECURSIVE SortByScoreDesc(_)
SortByScoreDesc(s) ==
    IF s = <<>> THEN <<>>
    ELSE InsertByScore(SortByScoreDesc(SubSeq(s, 1, Len(s) - 1)), s[Len(s)])

\* An outcome of a stage: a value, or the thrown error's code and details
Returned(v) == [ok |-> TRUE, code |-> "", subsystemId |-> <<>>, value |-> v]
Thrown(code, subsystemId) ==
    [ok |-> FALSE, code |-> code, subsystemId |-> subsystemId, value |-> <<>>]

\* SubsystemEvidenceSchema (lib/ai/schemas.ts): 1..8 items, startLine a
\* positive integer, endLine >= startLine, score within [0, 1]
SubsystemEvidenceSchemaAccepts(e) ==
    /\ Len(e.evidence) \in 1..8
    /\ \A i \in 1..Len(e.evidence) :
          /\ e.evidence[i].startLine > 0
          /\ e.evidence[i].endLine >= e.evidence[i].startLine
          /\ e.evidence[i].score \in 0..10

SubsystemEvidenceSchemaParse(e) ==
    IF SubsystemEvidenceSchemaAccepts(e) THEN Returned(e)
    ELSE Thrown("ZodError", <<>>)

\* (mutation: the end line is the constant 40, not capped by the file)
fallbackEvidenceUncapped(subsystem, files) ==
    LET taken == SliceTo(files, Min(FALLBACK_MAX_FILES, Len(files)))
        evidence ==
          [ i \in 1..Len(taken) |->
              [ path |-> taken[i].path,
                startLine |-> 1,
                endLine |-> FALLBACK_MAX_END_LINE,
                score |-> FALLBACK_SCORE_TENTHS,
                rationale |-> <<"F","a","l","l","b","a","c","k"," ","e","v","i","d","e","n","c","e"," ","s","e","l","e","c","t","e","d"," ","f","r","o","m"," ">> \o taken[i].path
                                \o <<" ","f","o","r"," ">> \o subsystem.name \o <<".">> ] ]
    IN  IF Len(evidence) = 0
        THEN Thrown("EMPTY_EVIDENCE_CONTEXT", subsystem.id)
        ELSE SubsystemEvidenceSchemaParse(
               [ subsystemId |-> subsystem.id,
                 subsystemName |-> subsystem.name,
                 evidence |-> evidence ])

\* (mutation: every available file is taken, not the first three)
fallbackEvidenceAllFiles(subsystem, files) ==
    LET evidence ==
          [ i \in 1..Len(files) |->
              [ path |-> files[i].path,
                startLine |-> 1,
                endLine |-> Min(FALLBACK_MAX_END_LINE, countLines(files[i].content)),
                score |-> FALLBACK_SCORE_TENTHS,
                rationale |-> <<"F","a","l","l","b","a","c","k"," ","e","v","i","d","e","n","c","e"," ","s","e","l","e","c","t","e","d"," ","f","r","o","m"," ">> \o files[i].path
                                \o <<" ","f","o","r"," ">> \o subsystem.name \o <<".">> ] ]
    IN  IF Len(evidence) = 0
        THEN Thrown("EMPTY_EVIDENCE_CONTEXT", subsystem.id)
        ELSE SubsystemEvidenceSchemaParse(
               [ subsystemId |-> subsystem.id,
                 subsystemName |-> subsystem.name,
                 evidence |-> evidence ])

\* (mutation: with no file the subsystem is passed over with an empty list)
fallbackEvidenceSkipsSubsystem(subsystem, files) ==
    LET taken == SliceTo(files, Min(FALLBACK_MAX_FILES, Len(files)))
        evidence ==
          [ i \in 1..Len(taken) |->
              [ path |-> taken[i].path,
                startLine |-> 1,
                endLine |-> Min(FALLBACK_MAX_END_LINE, countLines(taken[i].content)),
                score |-> FALLBACK_SCORE_TENTHS,
                rationale |-> <<"F","a","l","l","b","a","c","k">> ] ]
    IN  Returned([ subsystemId |-> subsystem.id,
                   subsystemName |-> subsystem.name,
                   evidence |-> evidence ])

fallbackEvidence(subsystem, files) ==
    LET taken == SliceTo(files, Min(FALLBACK_MAX_FILES, Len(files)))
        evidence ==
          [ i \in 1..Len(taken) |->
              [ path |-> taken[i].path,
                startLine |-> 1,
                endLine |-> Min(FALLBACK_MAX_END_LINE, countLines(taken[i].content)),
                score |-> FALLBACK_SCORE_TENTHS,
                rationale |-> <<"F","a","l","l","b","a","c","k"," ","e","v","i","d","e","n","c","e"," ","s","e","l","e","c","t","e","d"," ","f","r","o","m"," ">> \o taken[i].path
                                \o <<" ","f","o","r"," ">> \o subsystem.name \o <<".">> ] ]
    IN  IF Len(evidence) = 0
        THEN Thrown("EMPTY_EVIDENCE_CONTEXT", subsystem.id)
        ELSE SubsystemEvidenceSchemaParse(
               [ subsystemId |-> subsystem.id,
                 subsystemName |-> subsystem.name,
                 evidence |-> evidence ])

\* The candidate paths shown for the subsystem: its scored paths that were
\* fetched, at most MAX_FILES_PER_SUBSYSTEM of them
SelectedPaths(scoredPaths, allFiles) ==
    LET paths == [i \in 1..Len(scoredPaths) |-> scoredPaths[i].path]
        byPath == fileByPath(allFiles)
    IN  SliceTo(FilterSeq(paths, { i \in 1..Len(paths) : paths[i] \in DOMAIN byPath }),
                MAX_FILES_PER_SUBSYSTEM)

SubsystemFiles(scoredPaths, allFiles) ==
    LET selectedPaths == SelectedPaths(scoredPaths, allFiles)
        byPath == fileByPath(allFiles)
    IN  [i \in 1..Len(selectedPaths) |-> byPath[selectedPaths[i]]]

\* (mutation: the path of a returned item is not checked against the shown ones)
ValidatedEvidenceAnyFetchedPath(outputEvidence, selectedPaths, lineCountMap) ==
    LET ranged == FilterSeq(outputEvidence,
                     { i \in 1..Len(outputEvidence) :
                         LET item == outputEvidence[i]
                             maxLines == MapGet(lineCountMap, item.path)
                         IN  /\ maxLines # 0
                             /\ item.startLine > 0
                             /\ item.endLine >= item.startLine
                             /\ item.endLine <= maxLines })
    IN  SliceTo(SortByScoreDesc(ranged), MAX_EVIDENCE_ITEMS_PER_SUBSYSTEM)

ValidatedEvidence(outputEvidence, selectedPaths, lineCountMap) ==
    LET shown == FilterSeq(outputEvidence,
                     { i \in 1..Len(outputEvidence) :
                         outputEvidence[i].path \in Range(selectedPaths) })
        ranged == FilterSeq(shown,
                     { i \in 1..Len(shown) :
                         LET item == shown[i]
                             maxLines == MapGet(lineCountMap, item.path)
                         IN  /\ maxLines # 0
                             /\ item.startLine > 0
                             /\ item.endLine >= item.startLine
                             /\ item.endLine <= maxLines })
    IN  SliceTo(SortByScoreDesc(ranged), MAX_EVIDENCE_ITEMS_PER_SUBSYSTEM)

\* The callback of params.subsystems.map up to its generateText call:
\* TRUE when no candidate file was fetched and the fallback answers at once
MapNeedsNoGeneration(scoredPaths, allFiles) ==
    Len(SubsystemFiles(scoredPaths, allFiles)) = 0

\* The callback after generateText has returned outputEvidence; lineCountMap
\* is getLineCountByPath(params.files), computed before the fan-out
MapAfterGeneration(subsystem, scoredPaths, allFiles, lineCountMap, outputEvidence) ==
    LET selectedPaths == SelectedPaths(scoredPaths, allFiles)
        files == SubsystemFiles(scoredPaths, allFiles)
        validated == ValidatedEvidence(outputEvidence, selectedPaths, lineCountMap)
    IN  IF Len(validated) = 0
        THEN fallbackEvidence(subsystem, files)
        ELSE SubsystemEvidenceSchemaParse(
               [ subsystemId |-> subsystem.id,
                 subsystemName |-> subsystem.name,
                 evidence |-> validated ])

-----------------------------------------------------------------------------
(* lib/ai/schemas.ts *)

\* z.array(z.string().trim().min(1))
TrimmedNonEmptyStrings(paths) ==
    [ ok |-> \A i \in 1..Len(paths) : Len(trim(paths[i])) >= 1,
      value |-> [i \in 1..Len(paths) |-> trim(paths[i])] ]

\* SignalPathSelectionSchema: {paths: string[] (each trimmed, min 1), min 1}
SignalPathSelectionSchemaParse(paths) ==
    LET each == TrimmedNonEmptyStrings(paths)
    IN  IF each.ok /\ Len(paths) >= 1
        THEN Returned(each.value)
        ELSE Thrown("ZodError", <<>>)

SlugChars == Range(LowerChars) \cup Range(DigitChars) \cup {"-"}

\* SubsystemSchema: the parsed subsystem, and whether the object is accepted
SubsystemSchemaValue(raw) ==
    [ id |-> toLowerCase(trim(raw.id)),
      name |-> trim(raw.name),
      description |-> trim(raw.description),
      userJourney |-> trim(raw.userJourney),
      relevantPaths |-> TrimmedNonEmptyStrings(raw.relevantPaths).value,
      entryPoints |-> TrimmedNonEmptyStrings(raw.entryPoints).value,
      externalServices |-> [i \in 1..Len(raw.externalServices) |->
                              trim(raw.externalServices[i])] ]

SubsystemSchemaAccepts(raw) ==
    LET v == SubsystemSchemaValue(raw)
    IN  /\ Len(v.id) >= 1
        /\ Range(v.id) \subseteq SlugChars
        /\ Len(v.name) >= 3
        /\ Len(v.description) >= 10
        /\ Len(v.userJourney) >= 20
        /\ TrimmedNonEmptyStrings(raw.relevantPaths).ok
        /\ Len(raw.relevantPaths) >= 1
        /\ TrimmedNonEmptyStrings(raw.entryPoints).ok
        /\ Len(raw.entryPoints) \in 1..3

\* SubsystemListSchema: productSummary (trimmed, min 10), 3..8 subsystems
SubsystemListSchemaParse(raw) ==
    IF /\ Len(trim(raw.productSummary)) >= 10
       /\ Len(raw.subsystems) \in 3..8
       /\ \A i \in 1..Len(raw.subsystems) : SubsystemSchemaAccepts(raw.subsystems[i])
    THEN Returned([ productSummary |-> trim(raw.productSummary),
                    subsystems |-> [i \in 1..Len(raw.subsystems) |->
                                      SubsystemSchemaValue(raw.subsystems[i])] ])
    ELSE Thrown("ZodError", <<>>)

-----------------------------------------------------------------------------
(* lib/ai/prompts.ts and lib/ai/pipeline.ts: signal selection, extraction *)

FORBIDDEN_SUBSYSTEM_NAMES ==
    << <<"f","r","o","n","t","e","n","d">>,
       <<"b","a","c","k","e","n","d">>,
       <<"a","p","i">>,
       <<"u","t","i","l","s">>,
       <<"s","h","a","r","e","d">>,
       <<"d","a","t","a","b","a","s","e">>,
       <<"i","n","f","r","a","s","t","r","u","c","t","u","r","e">> >>

FORBIDDEN_NAME_SET ==
    { toLowerCase(FORBIDDEN_SUBSYSTEM_NAMES[i]) : i \in 1..Len(FORBIDDEN_SUBSYSTEM_NAMES) }

\* (mutation: the name is compared without lowercasing)
hasInvalidSubsystemNamesCaseSensitive(output) ==
    \E i \in 1..Len(output.subsystems) :
        trim(output.subsystems[i].name) \in FORBIDDEN_NAME_SET

hasInvalidSubsystemNames(output) ==
    \E i \in 1..Len(output.subsystems) :
        toLowerCase(trim(output.subsystems[i].name)) \in FORBIDDEN_NAME_SET

\* extractSubsystems after generateText has returned the parsed output
ExtractAfterGeneration(parsed) ==
    IF hasInvalidSubsystemNames(parsed)
    THEN Thrown("INVALID_SUBSYSTEM_NAMES", <<>>)
    ELSE Returned(parsed)

\* (mutation: hallucinated paths are not dropped)
SignalUsablePathsUnchecked(outputPaths, treePaths) ==
    Dedupe(outputPaths)

SignalUsablePaths(outputPaths, treePaths) ==
    LET unique == Dedupe(outputPaths)
    IN  FilterSeq(unique, { i \in 1..Len(unique) : unique[i] \in Range(treePaths) })

\* selectSignalPathsWithAI after generateText has returned outputPaths
SignalAfterGeneration(outputPaths, treePaths) ==
    LET deduped == SignalUsablePaths(outputPaths, treePaths)
    IN  IF Len(deduped) = 0
        THEN Thrown("INVALID_SIGNAL_PATHS", <<>>)
        ELSE SignalPathSelectionSchemaParse(deduped)

-----------------------------------------------------------------------------
(* Inputs of the citation linker *)

PathSrcA == <<"s","r","c","/","a",".","t","s">>
PathLogin == <<"s","r","c","/","a","u","t","h","/","l","o","g","i","n",".","t","s">>
PathSession == <<"s","r","c","/","a","u","t","h","/","s","e","s","s","i","o","n",".","t","s">>
PathReadme == <<"R","E","A","D","M","E",".","m","d">>
PathCart == <<"s","r","c","/","c","a","r","t",".","t","s">>
PathHallucinated == <<"s","r","c","/","g","h","o","s","t",".","t","s">>
SubsystemIdAuth == <<"a","u","t","h">>
SubsystemNameAuth == <<"A","u","t","h","e","n","t","i","c","a","t","i","o","n">>
PathSrcAPadded == <<" ">> \o PathSrcA \o <<" ">>
PathUnknown == <<"z","z",".","g","o">>
PathDocs == <<"d","o","c","s","/","a"," ","b",".","m","d">>

RepoOwner == <<"a","c","m","e">>
RepoName == <<"s","h","o","p">>

MarkdownPieces ==
    { TextPiece(<<"U","s","e","r","s"," ","s","i","g","n"," ","i","n","."," ">>),
      CiteMarker(PathSrcA, <<"1","0">>, <<"2","0">>),
      CiteMarker(PathSrcA, <<"0","1","0">>, <<"2","0">>),
      CiteMarker(PathSrcA, <<"4","0">>, <<"6","0">>),
      CiteMarker(PathSrcAPadded, <<"7">>, <<"7">>),
      CiteMarker(PathSrcA, <<"0">>, <<"5">>),
      CiteMarker(PathSrcA, <<"2","0">>, <<"1","0">>),
      CiteMarker(PathUnknown, <<"1">>, <<"1">>),
      CiteMarker(PathDocs, <<"2">>, <<"3">>) }

LineCountMaps ==
    { (PathSrcA :> 50),
      (PathSrcA :> 50) @@ (PathDocs :> 3) }

SeqsUpTo(S, n) == UNION { [1..k -> S] : k \in 0..n }

CiteIdle == [done |-> FALSE, markdown |-> <<>>, citations |-> <<>>]

-----------------------------------------------------------------------------
(* Specification of the citation linker on its own *)

Pending == [ok |-> FALSE, code |-> "pending", subsystemId |-> <<>>, value |-> <<>>]

CiteUnused ==
    /\ citeIn = [markdown |-> <<>>, sha |-> <<>>, lineCountsByPath |-> <<>>]
    /\ citeOut = CiteIdle

MapUnused ==
    /\ mapIn = [subsystem |-> <<>>, files |-> <<>>, scored |-> <<>>]
    /\ mapPc = "unused"
    /\ mapGen = <<>>
    /\ mapOut = Pending

SigUnused ==
    /\ sigIn = <<>>
    /\ sigPc = "unused"
    /\ sigGen = <<>>
    /\ sigCalls = 0
    /\ sigOut = Pending

NoOutput == [returned |-> FALSE, output |-> <<>>]

ExtUnused ==
    /\ extPc = "unused"
    /\ extGen = NoOutput
    /\ extOut = Pending

NoRequest == [headSha |-> <<>>, forceRefresh |-> FALSE]
NoSubsystems == [productSummary |-> <<>>, subsystems |-> <<>>]
NoResponse ==
    [ status |-> "none", source |-> "", code |-> "", subsystemId |-> <<>>,
      headSha |-> <<>>, createdAt |-> 0, wikiPages |-> <<>> ]
EmptyKv == [records |-> <<>>, latest |-> <<>>, recent |-> <<>>]

ScoreUnused ==
    /\ scoreIn = [subsystem |-> <<>>, treePaths |-> <<>>, maxFiles |-> <<>>]
    /\ scoreOut = <<>>

WinUnused ==
    /\ winIn = [content |-> <<>>, maxLines |-> 0, headLines |-> 0, tailLines |-> 0]
    /\ winOut = <<>>

FilterUnused ==
    /\ filterIn = <<>>
    /\ filterOut = <<>>

FetchUnused ==
    /\ fetchIn = [paths |-> <<>>, maxRetries |-> <<>>, concurrency |-> <<>>]
    /\ cursor = 0
    /\ collected = <<>>
    /\ workers = <<>>
    /\ fetchLog = <<>>
    /\ claimed = <<>>
    /\ fetchOut = <<>>

StoreUnused == writers = <<>>

RunUnused ==
    /\ kv = EmptyKv
    /\ kvBefore = EmptyKv
    /\ clock = 0
    /\ served = 0
    /\ pc = "unused"
    /\ req = NoRequest
    /\ cleanedPaths = <<>>
    /\ signalPaths = <<>>
    /\ extracted = NoSubsystems
    /\ selected = <<>>
    /\ evidenceFiles = <<>>
    /\ lineCounts = <<>>
    /\ mapRun = <<>>
    /\ draftRun = <<>>
    /\ calls = <<>>
    /\ response = NoResponse

InitCite ==
    /\ citeIn \in [ markdown : SeqsUpTo(MarkdownPieces, MaxMarkdownTokens),
                     sha : {<<"a","b","c","1","2","3">>},
                     lineCountsByPath : LineCountMaps ]
    /\ citeOut = CiteIdle
    /\ MapUnused
    /\ SigUnused
    /\ ExtUnused
    /\ RunUnused
    /\ ScoreUnused
    /\ WinUnused
    /\ FilterUnused
    /\ FetchUnused
    /\ StoreUnused


LinkCitations ==
    /\ ~ citeOut.done
    /\ citeOut' =
          [done |-> TRUE] @@
          parseAndLinkCitations(citeIn.markdown, RepoOwner, RepoName, citeIn.sha,
                                citeIn.lineCountsByPath)
    /\ UNCHANGED <<citeIn, exceptCite>>

NextCite == LinkCitations

SpecCite == InitCite /\ [][NextCite]_vars

-----------------------------------------------------------------------------
(* C1: every citation returned by parseAndLinkCitations names a path with an
   entry in lineCountsByPath and a range with 1 <= startLine <= endLine <=
   totalLines(path); a marker whose path is unknown or whose range breaks
   one of these bounds is replaced by the empty string and yields no
   citation. *)

MarkerInBounds(m, counts) ==
    /\ MarkerPath(m) \in DOMAIN counts
    /\ 1 <= MarkerStart(m)
    /\ MarkerStart(m) <= MarkerEnd(m)
    /\ MarkerEnd(m) <= counts[MarkerPath(m)]

C1_CitationsWithinLineCounts ==
    citeOut.done =>
      LET counts == citeIn.lineCountsByPath
          md == citeIn.markdown
      IN  /\ \A i \in 1..Len(citeOut.citations) :
                LET c == citeOut.citations[i]
                IN  /\ c.path \in DOMAIN counts
                    /\ 1 <= c.startLine
                    /\ c.startLine <= c.endLine
                    /\ c.endLine <= counts[c.path]
          /\ Len(citeOut.markdown) = Len(md)
          /\ \A i \in 1..Len(md) :
                (md[i].kind = "cite" /\ ~ MarkerInBounds(md[i], counts)) =>
                  /\ citeOut.markdown[i] = TextPiece(<<>>)
                  /\ \A j \in 1..Len(citeOut.citations) :
                        <<citeOut.citations[j].path, citeOut.citations[j].startLine,
                          citeOut.citations[j].endLine>>
                          # <<MarkerPath(md[i]), MarkerStart(md[i]), MarkerEnd(md[i])>>

\* the 40-60 marker against the 50-line file is dropped while another survives
C1_Witness ==
    /\ citeOut.done
    /\ \E i \in 1..Len(citeIn.markdown) :
          /\ citeIn.markdown[i] = CiteMarker(PathSrcA, <<"4","0">>, <<"6","0">>)
          /\ citeOut.markdown[i] = TextPiece(<<>>)
    /\ Len(citeOut.citations) >= 1

-----------------------------------------------------------------------------
(* C13: valid markers are deduplicated by (path, startLine, endLine): the
   citation list holds each distinct valid triple exactly once, in the order
   of first occurrence in the markdown, and every occurrence of a valid
   marker, repeats included, is rewritten to the same link. *)

MarkerTriple(m) == <<MarkerPath(m), MarkerStart(m), MarkerEnd(m)>>
CitationTriple(c) == <<c.path, c.startLine, c.endLine>>

\* the positions of the markdown holding a valid marker
ValidMarkerPositions ==
    { i \in 1..Len(citeIn.markdown) :
        /\ citeIn.markdown[i].kind = "cite"
        /\ MarkerInBounds(citeIn.markdown[i], citeIn.lineCountsByPath) }

FirstOccurrence(triple) ==
    CHOOSE i \in ValidMarkerPositions :
        /\ MarkerTriple(citeIn.markdown[i]) = triple
        /\ \A j \in ValidMarkerPositions :
              MarkerTriple(citeIn.markdown[j]) = triple => i <= j

C13_CitationsDedupedInFirstOccurrenceOrder ==
    citeOut.done =>
      LET cs == citeOut.citations
          md == citeIn.markdown
      IN  /\ { CitationTriple(cs[j]) : j \in 1..Len(cs) }
                = { MarkerTriple(md[i]) : i \in ValidMarkerPositions }
          /\ \A j, k \in 1..Len(cs) :
                j < k => /\ CitationTriple(cs[j]) # CitationTriple(cs[k])
                         /\ FirstOccurrence(CitationTriple(cs[j]))
                              < FirstOccurrence(CitationTriple(cs[k]))
          /\ \A i \in ValidMarkerPositions :
                /\ citeOut.markdown[i].kind = "text"
                /\ citeOut.markdown[i].text # <<>>
                /\ \A j \in ValidMarkerPositions :
                      MarkerTriple(md[i]) = MarkerTriple(md[j]) =>
                        citeOut.markdown[i] = citeOut.markdown[j]

\* src/a.ts:10-20, then 7-7, then 10-20 again spelled 010-20: two citations
\* in that order, the first and the third marker rewritten alike
C13_Witness ==
    /\ citeOut.done
    /\ Len(citeIn.markdown) = 3
    /\ citeIn.markdown[1] = CiteMarker(PathSrcA, <<"1","0">>, <<"2","0">>)
    /\ citeIn.markdown[2] = CiteMarker(PathSrcAPadded, <<"7">>, <<"7">>)
    /\ citeIn.markdown[3] = CiteMarker(PathSrcA, <<"0","1","0">>, <<"2","0">>)
    /\ Len(citeOut.citations) = 2
    /\ CitationTriple(citeOut.citations[1]) = <<PathSrcA, 10, 20>>
    /\ CitationTriple(citeOut.citations[2]) = <<PathSrcA, 7, 7>>
    /\ citeOut.markdown[1] = citeOut.markdown[3]

-----------------------------------------------------------------------------
(* C14: every valid marker [[cite:P:S-E]] is replaced in place by
   [P:S-E](url) and yields the citation {path P, startLine S, endLine E, url},
   url being https://github.com/<owner>/<repo>/blob/<sha>/<P, each segment
   URL-encoded>#L<S>-L<E> when E > S and ...#L<S> when E = S; the text
   outside the markers is left unchanged.  P is the marker's path without
   surrounding blanks, S and E the numbers its digits denote. *)

\* the paths of the inputs as they are written in a URL
UrlEncodedPath ==
    (PathSrcA :> PathSrcA)
    @@ (PathDocs :> <<"d","o","c","s","/","a","%","2","0","b",".","m","d">>)

ExpectedAnchor(s, e) ==
    IF e > s
    THEN <<"#","L">> \o numberToString(s) \o <<"-","L">> \o numberToString(e)
    ELSE <<"#","L">> \o numberToString(s)

ExpectedUrl(path, s, e) ==
    <<"h","t","t","p","s",":","/","/","g","i","t","h","u","b",".","c","o","m","/">>
      \o RepoOwner \o <<"/">> \o RepoName \o <<"/","b","l","o","b","/">> \o citeIn.sha
      \o <<"/">> \o UrlEncodedPath[path] \o ExpectedAnchor(s, e)

ExpectedLinkText(path, s, e) ==
    <<"[">> \o path \o <<":">> \o numberToString(s) \o <<"-">> \o numberToString(e)
      \o <<"]","(">> \o ExpectedUrl(path, s, e) \o <<")">>

C14_MarkersBecomePermalinks ==
    citeOut.done =>
      LET md == citeIn.markdown
      IN  /\ Len(citeOut.markdown) = Len(md)
          /\ \A i \in 1..Len(md) :
                md[i].kind = "text" => citeOut.markdown[i] = md[i]
          /\ \A i \in ValidMarkerPositions :
                LET path == MarkerPath(md[i])
                    s == MarkerStart(md[i])
                    e == MarkerEnd(md[i])
                IN  /\ citeOut.markdown[i] = TextPiece(ExpectedLinkText(path, s, e))
                    /\ \E j \in 1..Len(citeOut.citations) :
                          citeOut.citations[j] =
                            [ path |-> path, startLine |-> s, endLine |-> e,
                              url |-> ExpectedUrl(path, s, e) ]

\* a range in a path with a blank and a single line, beside plain text
C14_Witness ==
    /\ citeOut.done
    /\ \E i, j, k \in 1..Len(citeIn.markdown) :
          /\ citeIn.markdown[i] = CiteMarker(PathDocs, <<"2">>, <<"3">>)
          /\ citeOut.markdown[i].text =
                <<"[">> \o PathDocs \o <<":","2","-","3","]","(">>
                  \o <<"h","t","t","p","s",":","/","/","g","i","t","h","u","b",".","c","o","m","/",
                       "a","c","m","e","/","s","h","o","p","/","b","l","o","b","/",
                       "a","b","c","1","2","3","/",
                       "d","o","c","s","/","a","%","2","0","b",".","m","d","#","L","2","-","L","3",")">>
          /\ citeIn.markdown[j] = CiteMarker(PathSrcAPadded, <<"7">>, <<"7">>)
          /\ citeOut.markdown[j].text =
                <<"[">> \o PathSrcA \o <<":","7","-","7","]","(">>
                  \o <<"h","t","t","p","s",":","/","/","g","i","t","h","u","b",".","c","o","m","/",
                       "a","c","m","e","/","s","h","o","p","/","b","l","o","b","/",
                       "a","b","c","1","2","3","/",
                       "s","r","c","/","a",".","t","s","#","L","7",")">>
          /\ citeIn.markdown[k].kind = "text"
          /\ citeOut.markdown[k] = citeIn.markdown[k]
    /\ Len(citeOut.citations) = 2

-----------------------------------------------------------------------------
(* Inputs of the evidence mapper *)

\* a text of n lines: n one-character lines separated by n - 1 newlines
ContentOfLines(n) == [i \in 1..(2 * n - 1) |-> IF i % 2 = 1 THEN "x" ELSE "\n"]

RepoFileContent(path, content) ==
    [path |-> path, content |-> content, size |-> Len(content)]

FileLogin == RepoFileContent(PathLogin, ContentOfLines(3))
FileSession == RepoFileContent(PathSession, ContentOfLines(45))
\* "x\n": a final newline still opens a second (empty) line
FileReadme == RepoFileContent(PathReadme, <<"x", "\n">>)
FileCart == RepoFileContent(PathCart, ContentOfLines(1))

NumberedPath(i) == <<"f">> \o numberToString(i) \o <<".", "t", "s">>
NineFiles == [i \in 1..9 |-> RepoFileContent(NumberedPath(i), ContentOfLines(2))]

ScoredPath(path, score) == [path |-> path, score |-> score]

DescriptionText == <<"H","a","n","d","l","e","s"," ","o","n","e"," ","f","e","a","t","u","r","e">>
JourneyText == <<"A"," ","v","i","s","i","t","o","r"," ","o","p","e","n","s"," ","t","h","e"," ","p","a","g","e">>

Subsystem(id, name, paths) ==
    [ id |-> id,
      name |-> name,
      description |-> DescriptionText,
      userJourney |-> JourneyText,
      relevantPaths |-> paths,
      entryPoints |-> paths,
      externalServices |-> <<>> ]

SubsystemAuth == Subsystem(SubsystemIdAuth, SubsystemNameAuth, <<PathLogin>>)

MapInputs ==
    { \* two candidates fetched; README.md fetched for another subsystem
      [ files |-> <<FileLogin, FileSession, FileReadme>>,
        scored |-> <<ScoredPath(PathLogin, 284), ScoredPath(PathSession, 64)>> ],
      \* no scored path at all: the fallback draws on every fetched file
      [ files |-> <<FileReadme, FileSession, FileLogin, FileCart>>,
        scored |-> <<>> ],
      \* the only scored path was not fetched (too large, not a plain file)
      [ files |-> <<FileSession, FileReadme>>,
        scored |-> <<ScoredPath(PathLogin, 284)>> ],
      \* nothing was fetched
      [ files |-> <<>>,
        scored |-> <<ScoredPath(PathLogin, 284)>> ],
      \* the same unfetched candidate in a run that fetched another file
      [ files |-> <<FileCart>>,
        scored |-> <<ScoredPath(PathLogin, 284)>> ],
      \* the two candidates of the first input, other files of the run differ
      [ files |-> <<FileCart, FileSession, FileLogin>>,
        scored |-> <<ScoredPath(PathLogin, 284), ScoredPath(PathSession, 64)>> ],
      \* four candidates fetched
      [ files |-> <<FileCart, FileReadme, FileLogin, FileSession>>,
        scored |-> <<ScoredPath(PathLogin, 284), ScoredPath(PathSession, 64),
                     ScoredPath(PathCart, 20), ScoredPath(PathReadme, 5)>> ],
      \* nine candidates fetched: only the first eight are shown
      [ files |-> NineFiles,
        scored |-> [i \in 1..9 |-> ScoredPath(NumberedPath(i), 20)] ] }

EvidenceItem(path, startLine, endLine, score) ==
    [ path |-> path, startLine |-> startLine, endLine |-> endLine,
      score |-> score, rationale |-> <<"m","o","d","e","l"," ","r","a","t","i","o","n","a","l","e">> ]

ModelEvidenceItems ==
    { EvidenceItem(PathLogin, 1, 3, 9),
      EvidenceItem(PathLogin, 2, 4, 8),
      EvidenceItem(PathLogin, 0, 2, 7),
      EvidenceItem(PathLogin, 3, 2, 7),
      EvidenceItem(PathSession, 41, 45, 9),
      EvidenceItem(PathSession, 40, 220, 10),
      EvidenceItem(PathReadme, 1, 2, 6),
      EvidenceItem(PathHallucinated, 1, 1, 10),
      EvidenceItem(NumberedPath(9), 1, 2, 10),
      EvidenceItem(NumberedPath(2), 1, 1, 3) }

\* one answer with more valid items than may be kept
TenItemAnswer ==
    [ i \in 1..10 |->
        IF i <= 8 THEN EvidenceItem(NumberedPath(i), 1, 2, i)
                  ELSE EvidenceItem(NumberedPath(i - 8), 2, 2, i) ]

ModelEvidenceAnswers ==
    SeqsUpTo(ModelEvidenceItems, MaxModelItems) \cup {TenItemAnswer}

-----------------------------------------------------------------------------
(* Specification of the evidence mapping of one subsystem
   (one callback of mapEvidenceForSubsystems) *)

InitMap ==
    /\ mapIn \in { [subsystem |-> SubsystemAuth] @@ i : i \in MapInputs }
    /\ mapPc = "start"
    /\ mapGen = <<>>
    /\ mapOut = Pending
    /\ CiteUnused
    /\ SigUnused
    /\ ExtUnused
    /\ RunUnused
    /\ ScoreUnused
    /\ WinUnused
    /\ FilterUnused
    /\ FetchUnused
    /\ StoreUnused


\* no candidate file: the fallback over all fetched files answers, no call
MapWithoutCandidates ==
    /\ mapPc = "start"
    /\ MapNeedsNoGeneration(mapIn.scored, mapIn.files)
    /\ mapOut' = fallbackEvidence(mapIn.subsystem, mapIn.files)
    /\ mapPc' = "done"
    /\ UNCHANGED <<mapIn, mapGen, exceptMap>>

\* generateText is called with the numbered contexts of the candidate files
MapCallsGeneration ==
    /\ mapPc = "start"
    /\ ~ MapNeedsNoGeneration(mapIn.scored, mapIn.files)
    /\ mapPc' = "awaiting"
    /\ UNCHANGED <<mapIn, mapGen, mapOut, exceptMap>>

\* generateText returns an evidence list
MapGenerationReturns ==
    /\ mapPc = "awaiting"
    /\ \E answer \in ModelEvidenceAnswers :
          /\ mapGen' = answer
          /\ mapOut' = MapAfterGeneration(mapIn.subsystem, mapIn.scored, mapIn.files,
                                          getLineCountByPath(mapIn.files), answer)
    /\ mapPc' = "done"
    /\ UNCHANGED <<mapIn, exceptMap>>

\* generateText rejects (transport error, no object generated)
MapGenerationFails ==
    /\ mapPc = "awaiting"
    /\ mapOut' = Thrown("GenerationError", <<>>)
    /\ mapPc' = "failed"
    /\ UNCHANGED <<mapIn, mapGen, exceptMap>>

NextMap ==
    \/ MapWithoutCandidates
    \/ MapCallsGeneration
    \/ MapGenerationReturns
    \/ MapGenerationFails

SpecMap == InitMap /\ [][NextMap]_vars

\* What the claims about the mapper speak of, stated from its inputs alone

\* the true line count of a fetched path (0 when it was not fetched)
TrueLineCount(path) ==
    IF \E i \in 1..Len(mapIn.files) : mapIn.files[i].path = path
    THEN countLines(mapIn.files[CHOOSE i \in 1..Len(mapIn.files) :
                                   mapIn.files[i].path = path].content)
    ELSE 0

Fetched(path) == \E i \in 1..Len(mapIn.files) : mapIn.files[i].path = path

\* the scored positions whose path was fetched, and those among the first 8
FetchedPositions == { k \in 1..Len(mapIn.scored) : Fetched(mapIn.scored[k].path) }
ShownPositions ==
    { k \in FetchedPositions :
        Cardinality({ j \in FetchedPositions : j < k }) < 8 }
ShownPaths == { mapIn.scored[k].path : k \in ShownPositions }

ItemValidAgainstFiles(item) ==
    /\ item.path \in ShownPaths
    /\ 1 <= item.startLine
    /\ item.startLine <= item.endLine
    /\ item.endLine <= TrueLineCount(item.path)

ResultEvidence == mapOut.value.evidence

-----------------------------------------------------------------------------
(* C2: every evidence item of every SubsystemEvidence the mapper returns,
   model-derived or fallback, has 1 <= startLine <= endLine <=
   totalLines(path), totalLines being countLines of the fetched content. *)

C2_EvidenceWithinFetchedLines ==
    mapOut.ok =>
      \A i \in 1..Len(ResultEvidence) :
        LET item == ResultEvidence[i]
        IN  /\ Fetched(item.path)
            /\ 1 <= item.startLine
            /\ item.startLine <= item.endLine
            /\ item.endLine <= TrueLineCount(item.path)

\* a model-derived item reaching the last line, and a fallback item cut at 40
C2_Witness ==
    /\ mapOut.ok
    /\ \/ \E i \in 1..Len(ResultEvidence) :
             /\ ResultEvidence[i] \in Range(mapGen)
             /\ ResultEvidence[i].endLine = 45
             /\ TrueLineCount(ResultEvidence[i].path) = 45
       \/ /\ mapGen = <<>>
          /\ mapPc = "done"
          /\ \E i \in 1..Len(ResultEvidence) :
                /\ ResultEvidence[i].endLine = 40
                /\ TrueLineCount(ResultEvidence[i].path) = 45

-----------------------------------------------------------------------------
(* C9: a model-returned item is kept only if its path is one of the candidate
   paths shown for the subsystem (scored, fetched, among the first 8) and its
   range is valid against the true line count; the surviving items come in
   descending score order and are at most 8. *)

C9_OnlyShownValidItemsSortedCapped ==
    (mapOut.ok /\ mapPc = "done") =>
      /\ \A i \in 1..Len(ResultEvidence) :
            ResultEvidence[i] \in Range(mapGen) =>
              ItemValidAgainstFiles(ResultEvidence[i])
      /\ \A i \in 1..(Len(ResultEvidence) - 1) :
            ResultEvidence[i].score >= ResultEvidence[i + 1].score
      /\ Len(ResultEvidence) <= 8

\* ten valid items were returned, the eight best are kept, best first
C9_Witness ==
    /\ mapOut.ok
    /\ mapGen = TenItemAnswer
    /\ Len(ResultEvidence) = 8
    /\ ResultEvidence[1].score = 10
    /\ ResultEvidence[8].score = 3

-----------------------------------------------------------------------------
(* C10: the fallback evidence is built exactly when no candidate file was
   fetched or the model returned no valid item; it holds one item for each
   of the first min(3, n) available files, in order, citing lines 1 through
   min(40, totalLines(path)) with one fixed score, whatever the model said. *)

NoFetchedCandidate == ShownPositions = {}

NoValidModelItem ==
    \A i \in 1..Len(mapGen) : ~ ItemValidAgainstFiles(mapGen[i])

\* the files the fallback draws on: every fetched file when there is no
\* candidate, else the candidate files in score order
AvailableFiles ==
    IF NoFetchedCandidate THEN mapIn.files
    ELSE LET shown == SelectIdx(mapIn.scored, ShownPositions, 1)
         IN  [ k \in 1..Len(shown) |->
                 mapIn.files[CHOOSE i \in 1..Len(mapIn.files) :
                                mapIn.files[i].path = shown[k].path] ]

ExpectedFallback ==
    [ i \in 1..Min(3, Len(AvailableFiles)) |->
        [ path |-> AvailableFiles[i].path,
          startLine |-> 1,
          endLine |-> Min(40, countLines(AvailableFiles[i].content)),
          score |-> 4 ] ]

Claimed(item) ==
    [ path |-> item.path, startLine |-> item.startLine,
      endLine |-> item.endLine, score |-> item.score ]

C10_FallbackExactlyWhenNothingValid ==
    mapPc = "done" =>
      IF NoFetchedCandidate \/ NoValidModelItem
      THEN IF Len(AvailableFiles) = 0
           THEN ~ mapOut.ok
           ELSE /\ mapOut.ok
                /\ [i \in 1..Len(ResultEvidence) |-> Claimed(ResultEvidence[i])]
                     = ExpectedFallback
      ELSE /\ mapOut.ok
           /\ \A i \in 1..Len(ResultEvidence) : ResultEvidence[i] \in Range(mapGen)

\* four candidates, an answer without a valid item: three fallback items,
\* the 45-line file cited 1-40
C10_Witness ==
    /\ mapPc = "done"
    /\ mapOut.ok
    /\ mapGen # <<>>
    /\ NoValidModelItem
    /\ Len(AvailableFiles) = 4
    /\ Len(ResultEvidence) = 3
    /\ ResultEvidence[2].endLine = 40

-----------------------------------------------------------------------------
(* C11: the mapping of a subsystem fails with EMPTY_EVIDENCE_CONTEXT if and
   only if no file is available to it even for the fallback; whenever it
   returns, the evidence list holds between 1 and 8 items. *)

MapFinished == mapPc \in {"done", "failed"}

C11_EmptyEvidenceContextIffNoFile ==
    /\ (mapOut.code = "EMPTY_EVIDENCE_CONTEXT") <=>
          (MapFinished /\ Len(AvailableFiles) = 0)
    /\ mapOut.code = "EMPTY_EVIDENCE_CONTEXT" => mapOut.subsystemId = mapIn.subsystem.id
    /\ mapOut.ok => Len(ResultEvidence) \in 1..8

\* nothing was fetched although a path was scored: the mapping has thrown
C11_Witness ==
    /\ mapPc = "done"
    /\ mapIn.files = <<>>
    /\ mapIn.scored # <<>>
    /\ mapOut.code = "EMPTY_EVIDENCE_CONTEXT"

-----------------------------------------------------------------------------
(* C12: the evidence returned for a subsystem depends only on the subsystem,
   its own candidate paths, their fetched contents and the model's answer for
   it; other subsystems of the run, and the files fetched for them, never
   change it. *)

\* the fetched files of a run that belong to the subsystem's candidate paths
OwnFiles(input) ==
    { input.files[i] : i \in { j \in 1..Len(input.files) :
                                 \E k \in 1..Len(input.scored) :
                                    input.scored[k].path = input.files[j].path } }

\* another run of the same subsystem: same candidate paths, same fetched
\* contents of those, whatever else was fetched
SameOwnInputs(other) ==
    /\ other.scored = mapIn.scored
    /\ OwnFiles(other) = OwnFiles(mapIn)

\* the mapping of the subsystem in the run `other`, the model answering alike
OutcomeIn(other) ==
    IF MapNeedsNoGeneration(other.scored, other.files)
    THEN fallbackEvidence(mapIn.subsystem, other.files)
    ELSE MapAfterGeneration(mapIn.subsystem, other.scored, other.files,
                            getLineCountByPath(other.files), mapGen)

\* as claimed: refuted when no candidate file was fetched, the fallback then
\* reading the files fetched for the other subsystems
C12_IndependentOfOtherSubsystems ==
    mapPc = "done" =>
      \A other \in MapInputs : SameOwnInputs(other) => OutcomeIn(other) = mapOut

(* C12, amended: when at least one candidate file of the subsystem was
   fetched, the outcome of its mapping is the same in every run that agrees
   on its candidate paths, their fetched contents and the model's answer. *)
C12_IndependentWhenCandidateFetched ==
    (mapPc = "done" /\ ~ NoFetchedCandidate) =>
      \A other \in MapInputs : SameOwnInputs(other) => OutcomeIn(other) = mapOut

\* model-derived evidence returned in a run, a second run with the same
\* candidates having fetched different files for the other subsystems
C12_Witness ==
    /\ mapPc = "done"
    /\ mapOut.ok
    /\ ~ NoFetchedCandidate
    /\ \E i \in 1..Len(ResultEvidence) : ResultEvidence[i] \in Range(mapGen)
    /\ \E other \in MapInputs :
          /\ SameOwnInputs(other)
          /\ Range(other.files) # Range(mapIn.files)
          /\ OutcomeIn(other) = mapOut

-----------------------------------------------------------------------------
(* Specification of selectSignalPathsWithAI on its own *)

PathLoginPadded == <<" ">> \o PathLogin
BlankPath == <<" ", " ">>

CleanedTrees ==
    { <<>>,
      <<PathLogin, PathSession, PathReadme>>,
      <<PathCart>> }

SignalRawPaths ==
    {PathLogin, PathLoginPadded, PathSession, PathReadme, PathHallucinated, BlankPath}

InitSignal ==
    /\ sigIn \in CleanedTrees
    /\ sigPc = "start"
    /\ sigGen = <<>>
    /\ sigCalls = 0
    /\ sigOut = Pending
    /\ CiteUnused
    /\ MapUnused
    /\ ExtUnused
    /\ RunUnused
    /\ ScoreUnused
    /\ WinUnused
    /\ FilterUnused
    /\ FetchUnused
    /\ StoreUnused


\* treePaths.length === 0: thrown before any prompt is built
SignalRejectsEmptyTree ==
    /\ sigPc = "start"
    /\ Len(sigIn) = 0
    /\ sigOut' = Thrown("EMPTY_FILE_TREE", <<>>)
    /\ sigPc' = "done"
    /\ UNCHANGED <<sigIn, sigGen, sigCalls, exceptSig>>

SignalCallsGeneration ==
    /\ sigPc = "start"
    /\ Len(sigIn) # 0
    /\ sigCalls' = sigCalls + 1
    /\ sigPc' = "awaiting"
    /\ UNCHANGED <<sigIn, sigGen, sigOut, exceptSig>>

\* generateText returns an object that fits SignalPathSelectionSchema
SignalGenerationReturns ==
    /\ sigPc = "awaiting"
    /\ \E raw \in SeqsUpTo(SignalRawPaths, MaxSignalAnswer) :
          LET output == SignalPathSelectionSchemaParse(raw)
          IN  /\ output.ok
              /\ sigGen' = output.value
              /\ sigOut' = SignalAfterGeneration(output.value, sigIn)
    /\ sigPc' = "done"
    /\ UNCHANGED <<sigIn, sigCalls, exceptSig>>

\* generateText rejects: transport error, or no object fitting the schema
SignalGenerationFails ==
    /\ sigPc = "awaiting"
    /\ sigOut' = Thrown("GenerationError", <<>>)
    /\ sigPc' = "failed"
    /\ UNCHANGED <<sigIn, sigGen, sigCalls, exceptSig>>

NextSignal ==
    \/ SignalRejectsEmptyTree
    \/ SignalCallsGeneration
    \/ SignalGenerationReturns
    \/ SignalGenerationFails

SpecSignal == InitSignal /\ [][NextSignal]_vars

-----------------------------------------------------------------------------
(* C8: with an empty cleanedPaths, selectSignalPathsWithAI fails with
   EMPTY_FILE_TREE and issues no generation call; otherwise it returns the
   model's paths deduplicated and restricted to cleanedPaths, and fails
   with INVALID_SIGNAL_PATHS exactly when none is left; a returned list is
   a non-empty duplicate-free subset of cleanedPaths. *)

FirstIndex(s, x) == CHOOSE i \in 1..Len(s) : s[i] = x /\ \A j \in 1..(i - 1) : s[j] # x

C8_SignalPathsFilteredOrRejected ==
    sigPc = "done" =>
      IF Len(sigIn) = 0
      THEN /\ ~ sigOut.ok
           /\ sigOut.code = "EMPTY_FILE_TREE"
           /\ sigCalls = 0
      ELSE LET usable == Range(sigGen) \cap Range(sigIn)
           IN  /\ sigOut.ok <=> usable # {}
               /\ ~ sigOut.ok => sigOut.code = "INVALID_SIGNAL_PATHS"
               /\ sigOut.ok =>
                     LET paths == sigOut.value
                     IN  /\ Range(paths) = usable
                         /\ Len(paths) >= 1
                         /\ \A i, j \in 1..Len(paths) : i < j =>
                               /\ paths[i] # paths[j]
                               /\ FirstIndex(sigGen, paths[i]) < FirstIndex(sigGen, paths[j])

\* a repeated path and a hallucinated one are dropped, two paths are kept
C8_Witness ==
    /\ sigPc = "done"
    /\ sigGen = <<PathReadme, PathHallucinated, PathReadme>>
    /\ sigOut.ok
    /\ sigOut.value = <<PathReadme>>

-----------------------------------------------------------------------------
(* Specification of extractSubsystems on its own *)

SubsystemCandidates ==
    { SubsystemAuth,
      Subsystem(<<"c","a","r","t">>, <<"S","h","o","p","p","i","n","g"," ","C","a","r","t">>, <<PathCart>>),
      Subsystem(<<"d","o","c","s">>, <<"O","n","b","o","a","r","d","i","n","g"," ","G","u","i","d","e">>, <<PathReadme>>),
      Subsystem(<<"a","p","i">>, <<" ","A","P","I"," ">>, <<PathCart>>),
      Subsystem(<<"b","a","c","k","e","n","d">>, <<"B","a","c","k","e","n","d">>, <<PathSession>>),
      Subsystem(<<"a","p","i","-","k","e","y","s">>, <<"A","P","I"," ","K","e","y","s">>, <<PathSession>>),
      Subsystem(<<"u","i">>, <<"U","I">>, <<PathLogin>>),
      \* a second subsystem whose id the schema lowercases to "auth"
      Subsystem(<<"A","u","t","h">>, <<"S","i","g","n"," ","I","n"," ","F","l","o","w">>, <<PathSession>>) }

ProductSummaryText == <<"A","n"," ","o","n","l","i","n","e"," ","s","h","o","p">>

ListsOfLength(S, lo, hi) == UNION { [1..k -> S] : k \in lo..hi }

InitExtract ==
    /\ extPc = "awaiting"
    /\ extGen = NoOutput
    /\ extOut = Pending
    /\ CiteUnused
    /\ MapUnused
    /\ SigUnused
    /\ RunUnused
    /\ ScoreUnused
    /\ WinUnused
    /\ FilterUnused
    /\ FetchUnused
    /\ StoreUnused


\* generateText returns an object that fits SubsystemListSchema
ExtractGenerationReturns ==
    /\ extPc = "awaiting"
    /\ \E subsystems \in ListsOfLength(SubsystemCandidates, 3, MaxSubsystems) :
          LET output == SubsystemListSchemaParse(
                          [productSummary |-> ProductSummaryText,
                           subsystems |-> subsystems])
          IN  /\ output.ok
              /\ extGen' = [returned |-> TRUE, output |-> output.value]
              /\ extOut' = ExtractAfterGeneration(output.value)
    /\ extPc' = "done"
    /\ UNCHANGED exceptExt

\* generateText rejects: transport error, or no object fitting the schema
ExtractGenerationFails ==
    /\ extPc = "awaiting"
    /\ extOut' = Thrown("GenerationError", <<>>)
    /\ extPc' = "failed"
    /\ UNCHANGED <<extGen, exceptExt>>

NextExtract ==
    \/ ExtractGenerationReturns
    \/ ExtractGenerationFails

SpecExtract == InitExtract /\ [][NextExtract]_vars

-----------------------------------------------------------------------------
(* C5: extractSubsystems is a whole-batch gate: if any generated subsystem
   name, trimmed and lowercased, is one of frontend, backend, api, utils,
   shared, database, infrastructure, the call fails with
   INVALID_SUBSYSTEM_NAMES and returns no list; otherwise the generated
   list is returned unchanged. *)

ForbiddenLayerNames ==
    { <<"f","r","o","n","t","e","n","d">>, <<"b","a","c","k","e","n","d">>,
      <<"a","p","i">>, <<"u","t","i","l","s">>, <<"s","h","a","r","e","d">>,
      <<"d","a","t","a","b","a","s","e">>, <<"i","n","f","r","a","s","t","r","u","c","t","u","r","e">> }

NamesForbiddenLayer(subsystem) ==
    toLowerCase(trim(subsystem.name)) \in ForbiddenLayerNames

C5_ForbiddenNameFailsWholeExtraction ==
    extPc = "done" =>
      LET generated == extGen.output.subsystems
      IN  IF \E i \in 1..Len(generated) : NamesForbiddenLayer(generated[i])
          THEN /\ ~ extOut.ok
               /\ extOut.code = "INVALID_SUBSYSTEM_NAMES"
          ELSE /\ extOut.ok
               /\ extOut.value = extGen.output

\* two valid subsystems and one named "API": the whole list is refused
C5_Witness ==
    /\ extPc = "done"
    /\ ~ extOut.ok
    /\ extOut.code = "INVALID_SUBSYSTEM_NAMES"
    /\ Cardinality({ i \in 1..Len(extGen.output.subsystems) :
                       NamesForbiddenLayer(extGen.output.subsystems[i]) }) = 1
    /\ \E i \in 1..Len(extGen.output.subsystems) :
          extGen.output.subsystems[i].name = <<"A","P","I">>

-----------------------------------------------------------------------------
(* lib/store/types.ts and lib/store/kv.ts: the analysis cache *)

SafeSegmentChars == Range(LowerChars) \cup Range(DigitChars) \cup {".", "_", "-"}

\* input.toLowerCase().replace(/[^a-z0-9._-]/g, "_")
toSafeSegment(input) ==
    [ i \in 1..Len(input) |->
        IF LowerChar(input[i]) \in SafeSegmentChars THEN LowerChar(input[i]) ELSE "_" ]

buildAnalyzeCacheKey(owner, repo, headSha) ==
    toSafeSegment(owner) \o <<"_", "_">> \o toSafeSegment(repo)
        \o <<"_", "_">> \o toSafeSegment(headSha)

buildRepoKey(owner, repo) ==
    toSafeSegment(owner) \o <<":", ":">> \o toSafeSegment(repo)

\* (mutation: the read finds no record)
readAnalyzeCacheFromKvMisses(store, cacheKey) == <<>>

\* the record stored under the key, as a list of at most one record
readAnalyzeCacheFromKv(store, cacheKey) ==
    IF cacheKey \in DOMAIN store.records THEN <<store.records[cacheKey]>> ELSE <<>>

\* await redis.set(`analyze:cache:${record.cacheKey}`, record)
SetCacheRecord(store, record) ==
    [store EXCEPT !.records = (record.cacheKey :> record) @@ @]

\* await redis.set(`analyze:repo-latest:${repoKey}`, record.cacheKey)
SetRepoLatest(store, record) ==
    [store EXCEPT
        !.latest = (buildRepoKey(record.owner, record.repo) :> record.cacheKey) @@ @]

\* await redis.zadd("analyze:recent-repos", {member: repoKey, score})
AddRecentRepo(store, record) ==
    [store EXCEPT
        !.recent = (buildRepoKey(record.owner, record.repo) :> record.createdAt) @@ @]

\* redis.set(record), redis.set(repo-latest), redis.zadd(recent-repos), with
\* no other command of another run in between
writeAnalyzeCacheToKv(store, record) ==
    AddRecentRepo(SetRepoLatest(SetCacheRecord(store, record), record), record)

\* the record the repository's latest pointer leads to, as a list of at most
\* one record
readLatestAnalyzeCacheByRepoFromKv(store, owner, repo) ==
    LET repoKey == buildRepoKey(owner, repo)
    IN  IF repoKey \notin DOMAIN store.latest THEN <<>>
        ELSE readAnalyzeCacheFromKv(store, store.latest[repoKey])

-----------------------------------------------------------------------------
(* lib/github/client.ts, against a repository with two commits *)

MAX_FILE_BYTES == 150000

ShaFirst == <<"a","1","f","0">>
ShaJunk == <<"c","3","d","8">>
HeadShas == {ShaFirst, ShaJunk}

PathMakefile == <<"M","a","k","e","f","i","l","e">>
PathBig == <<"s","r","c","/","b","i","g",".","t","s">>
PathDist == <<"d","i","s","t","/","a","p","p",".","j","s">>
PathLogo == <<"l","o","g","o",".","P","N","G">>
PathLock == <<"y","a","r","n",".","l","o","c","k">>

\* the blobs of the commit's tree, as the git tree API lists them
TreeAt(sha) ==
    IF sha = ShaJunk
    THEN <<PathDist, PathLogo, PathLock>>
    ELSE <<PathReadme, PathSession, PathMakefile, PathCart, PathLogin, PathBig,
           PathDist, PathLogo>>

FileMakefile == RepoFileContent(PathMakefile, ContentOfLines(2))
FileBig == [path |-> PathBig, content |-> ContentOfLines(1), size |-> MAX_FILE_BYTES + 1]

RepoBlobs == <<FileReadme, FileSession, FileMakefile, FileCart, FileLogin, FileBig>>

getRepoFileTree(sha) == FilterIncluded(TreeAt(sha))

\* cleanTreePaths(repoFiles.map(file => file.path)) per head commit
CleanedTreeAt == [ sha \in HeadShas |-> cleanTreePaths(getRepoFileTree(sha)) ]

\* fetchSingleFile: the file, or nothing when it is larger than MAX_FILE_BYTES
fetchSingleFile(path) ==
    LET found == FilterSeq(RepoBlobs, { i \in 1..Len(RepoBlobs) : RepoBlobs[i].path = path })
    IN  FilterSeq(found, { i \in 1..Len(found) : found[i].size <= MAX_FILE_BYTES })

\* getSelectedFileContents when every fetch succeeds: the unique included
\* paths in order, without those fetchSingleFile answered null for
getSelectedFileContents(paths) ==
    LET uniquePaths == FilterIncluded(Dedupe(paths))
        fetchable == FilterSeq(uniquePaths,
                        { i \in 1..Len(uniquePaths) : fetchSingleFile(uniquePaths[i]) # <<>> })
    IN  [ i \in 1..Len(fetchable) |-> fetchSingleFile(fetchable[i])[1] ]

-----------------------------------------------------------------------------
(* lib/ai/pipeline.ts: the per-subsystem stages *)

\* selectEvidencePathsForSubsystems: a Map by subsystem id; a later subsystem
\* of the same id replaces the entry of an earlier one
selectEvidencePathsForSubsystems(subsystems, treePaths) ==
    [ id \in { subsystems[i].id : i \in 1..Len(subsystems) } |->
        scoreSubsystemRelevantPaths(
            subsystems[CHOOSE i \in 1..Len(subsystems) :
                          /\ subsystems[i].id = id
                          /\ \A j \in (i + 1)..Len(subsystems) : subsystems[j].id # id],
            treePaths, <<>>) ]

RECURSIVE Flat(_)
Flat(lists) == IF lists = <<>> THEN <<>> ELSE Head(lists) \o Flat(Tail(lists))

\* [...selectedPathsBySubsystem.values()].flat().map(entry => entry.path)
EvidencePaths(subsystems, selectedBySubsystem) ==
    LET ids == Dedupe([i \in 1..Len(subsystems) |-> subsystems[i].id])
        flat == Flat([i \in 1..Len(ids) |-> selectedBySubsystem[ids[i]]])
    IN  [ i \in 1..Len(flat) |-> flat[i].path ]

\* One promise of a params.subsystems.map(async ...) fan-out
Awaiting == [st |-> "awaiting", gen |-> <<>>, out |-> Pending]
Settled(gen, out) ==
    [st |-> IF out.ok THEN "fulfilled" ELSE "rejected", gen |-> gen, out |-> out]

\* (mutation: the join waits for every promise and ignores rejections,
\* as Promise.allSettled would)
PromiseAllSettled(run) ==
    IF \A i \in 1..Len(run) : run[i].st # "awaiting" THEN "fulfilled" ELSE "pending"

\* (mutation: the join is fulfilled by the first fulfilled promise)
PromiseAllFirstFulfilled(run) ==
    IF \E i \in 1..Len(run) : run[i].st = "rejected" THEN "rejected"
    ELSE IF \E i \in 1..Len(run) : run[i].st = "fulfilled" THEN "fulfilled"
    ELSE "pending"

\* Promise.all over the fan-out: rejected as soon as one promise rejects,
\* fulfilled once every promise is
PromiseAll(run) ==
    IF \E i \in 1..Len(run) : run[i].st = "rejected" THEN "rejected"
    ELSE IF \A i \in 1..Len(run) : run[i].st = "fulfilled" THEN "fulfilled"
    ELSE "pending"

\* the rejection Promise.all passes on: the callbacks run in index order
FirstRejection(run) ==
    run[CHOOSE i \in 1..Len(run) :
           /\ run[i].st = "rejected"
           /\ \A j \in 1..(i - 1) : run[j].st # "rejected"].out

\* the array Promise.all resolves to
FulfilledValues(run) ==
    LET done == FilterSeq(run, { i \in 1..Len(run) : run[i].st = "fulfilled" })
    IN  [ i \in 1..Len(done) |-> done[i].out.value ]

\* new Map(evidenceBySubsystem.map(item => [item.subsystemId, item])).get(id),
\* as a list of at most one SubsystemEvidence
EvidenceMapGet(evidenceBySubsystem, id) ==
    LET hits == FilterSeq(evidenceBySubsystem,
                    { i \in 1..Len(evidenceBySubsystem) :
                        evidenceBySubsystem[i].subsystemId = id })
    IN  IF hits = <<>> THEN <<>> ELSE <<hits[Len(hits)]>>

RECURSIVE MarkdownLength(_)
MarkdownLength(pieces) ==
    IF pieces = <<>> THEN 0 ELSE Len(Head(pieces).text) + MarkdownLength(Tail(pieces))

WIKI_MARKDOWN_MIN_LENGTH == 100

\* CitationSchema
CitationSchemaAccepts(c) ==
    /\ Len(trim(c.path)) >= 1
    /\ c.startLine > 0
    /\ c.endLine > 0
    /\ c.startLine <= c.endLine

\* WikiPageSchema.parse
WikiPageSchemaParse(page) ==
    IF /\ Len(trim(page.subsystemId)) >= 1
       /\ Len(trim(page.subsystemName)) >= 1
       /\ MarkdownLength(page.markdown) >= WIKI_MARKDOWN_MIN_LENGTH
       /\ \A i \in 1..Len(page.citations) : CitationSchemaAccepts(page.citations[i])
    THEN Returned([ subsystemId |-> trim(page.subsystemId),
                    subsystemName |-> trim(page.subsystemName),
                    markdown |-> page.markdown,
                    citations |-> [i \in 1..Len(page.citations) |->
                                     [page.citations[i] EXCEPT !.path = trim(@)]] ])
    ELSE Thrown("ZodError", <<>>)

\* (mutation: a draft none of whose markers survived is accepted)
DraftAfterGenerationUnchecked(subsystem, markdown, owner, repo, sha, lineCountMap) ==
    LET parsedCitations == parseAndLinkCitations(markdown, owner, repo, sha, lineCountMap)
    IN  WikiPageSchemaParse([ subsystemId |-> subsystem.id,
                              subsystemName |-> subsystem.name,
                              markdown |-> parsedCitations.markdown,
                              citations |-> parsedCitations.citations ])

\* The callback of draftWikiPages after generateText has returned markdown;
\* lineCountMap are those of all the files fetched for the run's evidence paths
DraftAfterGeneration(subsystem, markdown, owner, repo, sha, lineCountMap) ==
    LET parsedCitations == parseAndLinkCitations(markdown, owner, repo, sha, lineCountMap)
    IN  IF Len(parsedCitations.citations) = 0
        THEN Thrown("MISSING_WIKI_CITATIONS", subsystem.id)
        ELSE WikiPageSchemaParse([ subsystemId |-> subsystem.id,
                                   subsystemName |-> subsystem.name,
                                   markdown |-> parsedCitations.markdown,
                                   citations |-> parsedCitations.citations ])

-----------------------------------------------------------------------------
(* app/api/analyze/route.ts: the responses of POST /api/analyze *)

AppErrorCodes ==
    { "INVALID_REQUEST", "INVALID_REPO_URL", "EMPTY_FILE_TREE", "INVALID_SIGNAL_PATHS",
      "INVALID_SUBSYSTEM_NAMES", "GITHUB_FETCH_FAILED", "EMPTY_EVIDENCE_CONTEXT",
      "MISSING_SUBSYSTEM_EVIDENCE", "MISSING_WIKI_CITATIONS" }

\* the catch block: an AppError answers with its code and details, anything
\* else with INTERNAL_SERVER_ERROR
ErrorResponse(thrown) ==
    [ status |-> "error", source |-> "",
      code |-> IF thrown.code \in AppErrorCodes THEN thrown.code
               ELSE "INTERNAL_SERVER_ERROR",
      subsystemId |-> IF thrown.code \in AppErrorCodes THEN thrown.subsystemId ELSE <<>>,
      headSha |-> <<>>, createdAt |-> 0, wikiPages |-> <<>> ]

ReadyResponse(source, record) ==
    [ status |-> "ready", source |-> source, code |-> "", subsystemId |-> <<>>,
      headSha |-> record.headSha, createdAt |-> record.createdAt,
      wikiPages |-> record.result.wikiPages ]

CacheRecord(owner, repo, headSha, createdAt, list, wikiPages) ==
    [ cacheKey |-> buildAnalyzeCacheKey(owner, repo, headSha),
      owner |-> owner, repo |-> repo, headSha |-> headSha, createdAt |-> createdAt,
      result |-> [ productSummary |-> list.productSummary,
                   subsystems |-> list.subsystems,
                   wikiPages |-> wikiPages ] ]

-----------------------------------------------------------------------------
(* What the generation calls of a run may answer *)

SubsystemCart ==
    Subsystem(<<"c","a","r","t">>, <<"S","h","o","p","p","i","n","g"," ","C","a","r","t">>, <<PathCart>>)
SubsystemOps ==
    Subsystem(<<"o","p","s">>, <<"R","e","l","e","a","s","e"," ","T","o","o","l","i","n","g">>, <<PathMakefile>>)
SubsystemApi ==
    Subsystem(<<"a","p","i">>, <<" ","A","P","I"," ">>, <<PathCart>>)

PipelineSignalAnswers == { <<PathReadme, PathLoginPadded, PathReadme>>, <<PathHallucinated>> }

PipelineExtractions ==
    { [productSummary |-> ProductSummaryText,
       subsystems |-> <<SubsystemAuth, SubsystemCart, SubsystemOps>>],
      [productSummary |-> ProductSummaryText,
       subsystems |-> <<SubsystemAuth, SubsystemApi, SubsystemOps>>] }

\* the evidence lists a mapping call may return, given the paths it was shown:
\* one valid item on the first shown file or, for the first subsystem, one
\* item on a path it was not shown
MapAnswersFor(subsystem, shownPaths) ==
    { <<EvidenceItem(shownPaths[1], 1, 1, 9)>> }
        \cup IF subsystem.id = SubsystemIdAuth
             THEN { <<EvidenceItem(PathHallucinated, 1, 1, 9)>> }
             ELSE {}

LongProse == TextPiece([i \in 1..WIKI_MARKDOWN_MIN_LENGTH |-> "w"])

\* the drafts a drafting call may return, given the subsystem's evidence: one
\* citing its first evidence item, one citing a file and a range that are in
\* no evidence item of the subsystem, one citing nothing that exists
DraftAnswersFor(evidence) ==
    { <<LongProse, CiteMarker(evidence[1].path, numberToString(evidence[1].startLine),
                              numberToString(evidence[1].endLine))>>,
      <<LongProse, CiteMarker(PathMakefile, <<"1">>, <<"2">>),
                   CiteMarker(PathLogin, <<"1">>, <<"9">>)>>,
      <<LongProse, CiteMarker(PathHallucinated, <<"1">>, <<"1">>)>> }

GenerationCall(kind, index) == [kind |-> kind, index |-> index]

\* the calls a fan-out issues: one per promise left awaiting, in index order
FanOutCalls(kind, run) ==
    LET waiting == FilterSeq([i \in 1..Len(run) |-> i],
                             { i \in 1..Len(run) : run[i].st = "awaiting" })
    IN  [ k \in 1..Len(waiting) |-> GenerationCall(kind, waiting[k]) ]

-----------------------------------------------------------------------------
(* Specification of POST /api/analyze, one request at a time *)

Init ==
    /\ CiteUnused
    /\ MapUnused
    /\ SigUnused
    /\ ExtUnused
    /\ kv = EmptyKv
    /\ kvBefore = EmptyKv
    /\ clock = 0
    /\ served = 0
    /\ pc = "idle"
    /\ req = NoRequest
    /\ cleanedPaths = <<>>
    /\ signalPaths = <<>>
    /\ extracted = NoSubsystems
    /\ selected = <<>>
    /\ evidenceFiles = <<>>
    /\ lineCounts = <<>>
    /\ mapRun = <<>>
    /\ draftRun = <<>>
    /\ calls = <<>>
    /\ response = NoResponse
    /\ ScoreUnused
    /\ WinUnused
    /\ FilterUnused
    /\ FetchUnused
    /\ StoreUnused


\* a request arrives: the locals of the previous one are gone
Receive(headSha, forceRefresh) ==
    /\ pc = "idle"
    /\ served < MaxRequests
    /\ served' = served + 1
    /\ req' = [headSha |-> headSha, forceRefresh |-> forceRefresh]
    /\ kvBefore' = kv
    /\ signalPaths' = <<>>
    /\ extracted' = NoSubsystems
    /\ selected' = <<>>
    /\ evidenceFiles' = <<>>
    /\ lineCounts' = <<>>
    /\ mapRun' = <<>>
    /\ draftRun' = <<>>

\* the handler returns from its catch block
Fail(thrown) ==
    /\ response' = ErrorResponse(thrown)
    /\ pc' = "idle"

\* the payload or the repository URL is invalid, or the repository head
\* or tree cannot be read
PostFailsBeforePipeline ==
    /\ Receive(<<>>, FALSE)
    /\ \E code \in {"INVALID_REQUEST", "INVALID_REPO_URL", "RequestError"} :
          Fail(Thrown(code, <<>>))
    /\ cleanedPaths' = <<>>
    /\ calls' = <<>>
    /\ UNCHANGED <<kv, clock, exceptRun>>

\* forceRefresh is off and a record exists for the head commit
PostServesCache ==
    \E headSha \in HeadShas :
        LET cached == readAnalyzeCacheFromKv(
                          kv, buildAnalyzeCacheKey(RepoOwner, RepoName, headSha))
        IN  /\ cached # <<>>
            /\ Receive(headSha, FALSE)
            /\ response' = ReadyResponse("cache", cached[1])
            /\ cleanedPaths' = <<>>
            /\ calls' = <<>>
            /\ UNCHANGED <<kv, clock, pc, exceptRun>>

\* the cleaned tree is empty: selectSignalPathsWithAI throws before any call
PostFindsEmptyTree ==
    \E headSha \in HeadShas, forceRefresh \in BOOLEAN :
        LET cached == readAnalyzeCacheFromKv(
                          kv, buildAnalyzeCacheKey(RepoOwner, RepoName, headSha))
            tree == CleanedTreeAt[headSha]
        IN  /\ forceRefresh \/ cached = <<>>
            /\ Len(tree) = 0
            /\ Receive(headSha, forceRefresh)
            /\ cleanedPaths' = tree
            /\ calls' = <<>>
            /\ response' = ErrorResponse(Thrown("EMPTY_FILE_TREE", <<>>))
            /\ UNCHANGED <<kv, clock, pc, exceptRun>>

\* no usable record: the tree is read and cleaned, signal selection is called
PostStartsRun ==
    \E headSha \in HeadShas, forceRefresh \in BOOLEAN :
        LET cached == readAnalyzeCacheFromKv(
                          kv, buildAnalyzeCacheKey(RepoOwner, RepoName, headSha))
            tree == CleanedTreeAt[headSha]
        IN  /\ forceRefresh \/ cached = <<>>
            /\ Len(tree) > 0
            /\ Receive(headSha, forceRefresh)
            /\ cleanedPaths' = tree
            /\ calls' = <<GenerationCall("signal", 0)>>
            /\ pc' = "signal"
            /\ UNCHANGED <<kv, clock, response, exceptRun>>

\* the signal selection call returns; its files are fetched and the
\* extraction call is issued
SignalSelectionReturns ==
    /\ pc = "signal"
    /\ \E raw \in PipelineSignalAnswers, fetched \in BOOLEAN :
          LET output == SignalPathSelectionSchemaParse(raw)
              selection == IF output.ok
                           THEN SignalAfterGeneration(output.value, cleanedPaths)
                           ELSE Thrown("GenerationError", <<>>)
          IN  IF ~ selection.ok
              THEN /\ fetched
                   /\ Fail(selection)
                   /\ UNCHANGED <<signalPaths, calls>>
              ELSE IF ~ fetched
              THEN /\ Fail(Thrown("GITHUB_FETCH_FAILED", <<>>))
                   /\ signalPaths' = selection.value
                   /\ UNCHANGED calls
              ELSE /\ signalPaths' = selection.value
                   /\ calls' = Append(calls, GenerationCall("extract", 0))
                   /\ pc' = "extract"
                   /\ UNCHANGED response
    /\ UNCHANGED <<kv, kvBefore, clock, served, req, cleanedPaths, extracted, selected,
                   evidenceFiles, lineCounts, mapRun, draftRun, exceptRun>>

\* the signal selection or the extraction call rejects
GenerationRejects ==
    /\ pc \in {"signal", "extract"}
    /\ Fail(Thrown("GenerationError", <<>>))
    /\ UNCHANGED <<kv, kvBefore, clock, served, req, cleanedPaths, signalPaths, extracted,
                   selected, evidenceFiles, lineCounts, mapRun, draftRun, calls, exceptRun>>

\* the extraction call returns; evidence paths are scored and fetched and
\* mapEvidenceForSubsystems starts one callback per subsystem
ExtractionReturns ==
    /\ pc = "extract"
    /\ \E raw \in PipelineExtractions, fetched \in BOOLEAN :
          LET output == SubsystemListSchemaParse(raw)
              list == IF output.ok THEN ExtractAfterGeneration(output.value)
                      ELSE Thrown("GenerationError", <<>>)
          IN  IF ~ list.ok
              THEN /\ fetched
                   /\ Fail(list)
                   /\ UNCHANGED <<extracted, selected, evidenceFiles, lineCounts,
                                  mapRun, calls>>
              ELSE LET subsystems == list.value.subsystems
                       bySubsystem == selectEvidencePathsForSubsystems(subsystems, cleanedPaths)
                       files == getSelectedFileContents(EvidencePaths(subsystems, bySubsystem))
                       started == [ i \in 1..Len(subsystems) |->
                                      IF MapNeedsNoGeneration(bySubsystem[subsystems[i].id], files)
                                      THEN Settled(<<>>, fallbackEvidence(subsystems[i], files))
                                      ELSE Awaiting ]
                   IN  /\ extracted' = list.value
                       /\ selected' = bySubsystem
                       /\ IF ~ fetched
                          THEN /\ Fail(Thrown("GITHUB_FETCH_FAILED", <<>>))
                               /\ UNCHANGED <<evidenceFiles, lineCounts, mapRun, calls>>
                          ELSE /\ evidenceFiles' = files
                               /\ lineCounts' = getLineCountByPath(files)
                               /\ mapRun' = started
                               /\ calls' = calls \o FanOutCalls("map", started)
                               /\ pc' = "map"
                               /\ UNCHANGED response
    /\ UNCHANGED <<kv, kvBefore, clock, served, req, cleanedPaths, signalPaths, draftRun,
                   exceptRun>>

\* one mapping call returns an evidence list
MappingReturns ==
    /\ pc = "map"
    /\ PromiseAll(mapRun) = "pending"
    /\ \E i \in 1..Len(mapRun) :
          /\ mapRun[i].st = "awaiting"
          /\ LET subsystem == extracted.subsystems[i]
                 scored == selected[subsystem.id]
             IN  \E answer \in MapAnswersFor(subsystem,
                                               SelectedPaths(scored, evidenceFiles)) :
                    mapRun' = [mapRun EXCEPT ![i] =
                                 Settled(answer,
                                         MapAfterGeneration(subsystem, scored, evidenceFiles,
                                                            lineCounts, answer))]
    /\ UNCHANGED <<kv, kvBefore, clock, served, pc, req, cleanedPaths, signalPaths, extracted,
                   selected, evidenceFiles, lineCounts, draftRun, calls, response, exceptRun>>

\* one mapping call rejects
MappingFails ==
    /\ pc = "map"
    /\ PromiseAll(mapRun) = "pending"
    /\ \E i \in 1..Len(mapRun) :
          /\ mapRun[i].st = "awaiting"
          /\ mapRun' = [mapRun EXCEPT ![i] = Settled(<<>>, Thrown("GenerationError", <<>>))]
    /\ UNCHANGED <<kv, kvBefore, clock, served, pc, req, cleanedPaths, signalPaths, extracted,
                   selected, evidenceFiles, lineCounts, draftRun, calls, response, exceptRun>>

\* every mapping is done: draftWikiPages starts one callback per subsystem
DraftingStarts ==
    /\ pc = "map"
    /\ PromiseAll(mapRun) = "fulfilled"
    /\ LET evidenceBySubsystem == FulfilledValues(mapRun)
           subsystems == extracted.subsystems
           started == [ i \in 1..Len(subsystems) |->
                          IF EvidenceMapGet(evidenceBySubsystem, subsystems[i].id) = <<>>
                          THEN Settled(<<>>, Thrown("MISSING_SUBSYSTEM_EVIDENCE",
                                                    subsystems[i].id))
                          ELSE Awaiting ]
       IN  /\ draftRun' = started
           /\ calls' = calls \o FanOutCalls("draft", started)
    /\ lineCounts' = getLineCountByPath(evidenceFiles)
    /\ pc' = "draft"
    /\ UNCHANGED <<kv, kvBefore, clock, served, req, cleanedPaths, signalPaths, extracted,
                   selected, evidenceFiles, mapRun, response, exceptRun>>

\* one drafting call returns markdown
DraftReturns ==
    /\ pc = "draft"
    /\ PromiseAll(draftRun) = "pending"
    /\ \E i \in 1..Len(draftRun) :
          /\ draftRun[i].st = "awaiting"
          /\ LET subsystem == extracted.subsystems[i]
                 evidence == EvidenceMapGet(FulfilledValues(mapRun), subsystem.id)[1]
             IN  \E markdown \in DraftAnswersFor(evidence.evidence) :
                    draftRun' = [draftRun EXCEPT ![i] =
                                   Settled(markdown,
                                           DraftAfterGeneration(subsystem, markdown,
                                               RepoOwner, RepoName, req.headSha,
                                               lineCounts))]
    /\ UNCHANGED <<kv, kvBefore, clock, served, pc, req, cleanedPaths, signalPaths, extracted,
                   selected, evidenceFiles, lineCounts, mapRun, calls, response, exceptRun>>

\* one drafting call rejects
DraftFails ==
    /\ pc = "draft"
    /\ PromiseAll(draftRun) = "pending"
    /\ \E i \in 1..Len(draftRun) :
          /\ draftRun[i].st = "awaiting"
          /\ draftRun' = [draftRun EXCEPT ![i] = Settled(<<>>, Thrown("GenerationError", <<>>))]
    /\ UNCHANGED <<kv, kvBefore, clock, served, pc, req, cleanedPaths, signalPaths, extracted,
                   selected, evidenceFiles, lineCounts, mapRun, calls, response, exceptRun>>

\* Promise.all of the mapping or of the drafting stage rejects
StageRejects ==
    /\ \/ pc = "map" /\ PromiseAll(mapRun) = "rejected" /\ Fail(FirstRejection(mapRun))
       \/ pc = "draft" /\ PromiseAll(draftRun) = "rejected" /\ Fail(FirstRejection(draftRun))
    /\ UNCHANGED <<kv, kvBefore, clock, served, req, cleanedPaths, signalPaths, extracted,
                   selected, evidenceFiles, lineCounts, mapRun, draftRun, calls, exceptRun>>

\* every page is drafted: the record is written and the fresh result returned
PostWritesCache ==
    /\ pc = "draft"
    /\ PromiseAll(draftRun) = "fulfilled"
    /\ LET record == CacheRecord(RepoOwner, RepoName, req.headSha, clock + 1, extracted,
                                 FulfilledValues(draftRun))
       IN  /\ kv' = writeAnalyzeCacheToKv(kv, record)
           /\ response' = ReadyResponse("fresh", record)
    /\ clock' = clock + 1
    /\ pc' = "idle"
    /\ UNCHANGED <<kvBefore, served, req, cleanedPaths, signalPaths, extracted, selected,
                   evidenceFiles, lineCounts, mapRun, draftRun, calls, exceptRun>>

Next ==
    \/ PostFailsBeforePipeline
    \/ PostServesCache
    \/ PostFindsEmptyTree
    \/ PostStartsRun
    \/ SignalSelectionReturns
    \/ GenerationRejects
    \/ ExtractionReturns
    \/ MappingReturns
    \/ MappingFails
    \/ DraftingStarts
    \/ DraftReturns
    \/ DraftFails
    \/ StageRejects
    \/ PostWritesCache

Spec == Init /\ [][Next]_vars

-----------------------------------------------------------------------------
(* What the claims about a run speak of *)

\* the evidence the mapping stage produced for the subsystem at index i
OwnEvidence(i) ==
    IF i \in 1..Len(mapRun) /\ mapRun[i].st = "fulfilled"
    THEN mapRun[i].out.value.evidence
    ELSE <<>>

\* the citation lies within one evidence item of the list
WithinEvidence(c, evidence) ==
    \E k \in 1..Len(evidence) :
        /\ evidence[k].path = c.path
        /\ evidence[k].startLine <= c.startLine
        /\ c.endLine <= evidence[k].endLine

\* the citation lies within the true lines of a file fetched for the run
WithinFetchedFile(c) ==
    \E k \in 1..Len(evidenceFiles) :
        /\ evidenceFiles[k].path = c.path
        /\ 1 <= c.startLine
        /\ c.startLine <= c.endLine
        /\ c.endLine <= countLines(evidenceFiles[k].content)

\* the markers of a draft that name a fetched file and a range within it
SurvivingMarkers(markdown) ==
    { k \in 1..Len(markdown) :
        /\ markdown[k].kind = "cite"
        /\ WithinFetchedFile([ path |-> MarkerPath(markdown[k]),
                               startLine |-> MarkerStart(markdown[k]),
                               endLine |-> MarkerEnd(markdown[k]) ]) }

AllPagesCited(wikiPages) ==
    \A k \in 1..Len(wikiPages) : Len(wikiPages[k].citations) >= 1

(* C3: draftPage never returns a page with zero citations: a draft none of
   whose markers survives validation is rejected with MISSING_WIKI_CITATIONS
   carrying the subsystem's id, and every page that is returned, answered or
   stored has at least one citation. *)
C3_NoPageWithoutCitation ==
    /\ \A i \in 1..Len(draftRun) :
          /\ draftRun[i].st = "fulfilled"
                => Len(draftRun[i].out.value.citations) >= 1
          /\ (draftRun[i].st # "awaiting" /\ draftRun[i].gen # <<>>
                /\ SurvivingMarkers(draftRun[i].gen) = {})
                => /\ draftRun[i].st = "rejected"
                   /\ draftRun[i].out.code = "MISSING_WIKI_CITATIONS"
                   /\ draftRun[i].out.subsystemId = extracted.subsystems[i].id
    /\ AllPagesCited(response.wikiPages)
    /\ \A key \in DOMAIN kv.records : AllPagesCited(kv.records[key].result.wikiPages)

\* a draft with a marker, none valid, was rejected and the request answered
\* with that error and the subsystem's id
C3_Witness ==
    /\ pc = "idle"
    /\ response.code = "MISSING_WIKI_CITATIONS"
    /\ \E i \in 1..Len(draftRun) :
          /\ draftRun[i].st = "rejected"
          /\ draftRun[i].out.code = "MISSING_WIKI_CITATIONS"
          /\ \E k \in 1..Len(draftRun[i].gen) : draftRun[i].gen[k].kind = "cite"
          /\ response.subsystemId = extracted.subsystems[i].id

(* C4 as stated: every citation accepted into a subsystem's page lies within
   one evidence item of that same subsystem (same path, range inside the
   item's range). *)
C4_CitationsWithinOwnEvidence ==
    \A i \in 1..Len(draftRun) :
        draftRun[i].st = "fulfilled"
            => \A k \in 1..Len(draftRun[i].out.value.citations) :
                  WithinEvidence(draftRun[i].out.value.citations[k], OwnEvidence(i))

(* C4 as the code has it: every citation accepted into a subsystem's page
   names a file fetched for the run's evidence paths (of any subsystem) and a
   range with 1 <= startLine <= endLine <= that file's true line count. *)
C4_CitationsWithinFetchedFiles ==
    \A i \in 1..Len(draftRun) :
        draftRun[i].st = "fulfilled"
            => \A k \in 1..Len(draftRun[i].out.value.citations) :
                  WithinFetchedFile(draftRun[i].out.value.citations[k])

\* a page was accepted with a citation of a file that no evidence item of its
\* subsystem names
C4_Witness ==
    \E i \in 1..Len(draftRun) :
        /\ draftRun[i].st = "fulfilled"
        /\ \E k \in 1..Len(draftRun[i].out.value.citations) :
              /\ WithinFetchedFile(draftRun[i].out.value.citations[k])
              /\ \A n \in 1..Len(OwnEvidence(i)) :
                    OwnEvidence(i)[n].path # draftRun[i].out.value.citations[k].path

\* every stage of the run has succeeded for every subsystem
RunCompleted ==
    /\ draftRun # <<>>
    /\ \A i \in 1..Len(draftRun) : draftRun[i].st = "fulfilled"

(* C6: a run is all-or-nothing: while a run is under way the cache is what
   the request found, and a request that was not served from the cache and
   whose run did not complete every stage for every subsystem is answered
   with an error carrying no wiki pages and leaves the cache exactly as the
   request found it. *)
C6_FailedRunLeavesNoPagesNoRecord ==
    /\ pc # "idle" => kv = kvBefore
    /\ (pc = "idle" /\ served > 0 /\ response.source # "cache" /\ ~ RunCompleted)
          => /\ response.status = "error"
             /\ response.wikiPages = <<>>
             /\ kv = kvBefore

\* a refresh over an existing record failed in drafting one subsystem after
\* another subsystem's page had been drafted
C6_Witness ==
    /\ pc = "idle"
    /\ response.status = "error"
    /\ kvBefore # EmptyKv
    /\ \E i, j \in 1..Len(draftRun) :
          /\ draftRun[i].st = "rejected"
          /\ draftRun[j].st = "fulfilled"

(* C7: stages run in order: the extraction call is issued only after signal
   selection has returned, every mapping call precedes every drafting call,
   and a drafting call is issued only once the evidence mapping of every
   subsystem is done, in whatever order the mapping calls complete. *)
C7_StagesInOrder ==
    \A k \in 1..Len(calls) :
        /\ calls[k].kind = "extract"
              => /\ signalPaths # <<>>
                 /\ \E j \in 1..(k - 1) : calls[j].kind = "signal"
        /\ calls[k].kind = "map"
              => /\ extracted # NoSubsystems
                 /\ \E j \in 1..(k - 1) : calls[j].kind = "extract"
        /\ calls[k].kind = "draft"
              => /\ Len(mapRun) = Len(extracted.subsystems)
                 /\ \A i \in 1..Len(mapRun) : mapRun[i].st = "fulfilled"
                 /\ \A j \in (k + 1)..Len(calls) : calls[j].kind = "draft"

\* the drafting calls have been issued after a mapping stage in which one
\* subsystem fell back and the others used the generated evidence
C7_Witness ==
    /\ pc = "draft"
    /\ \E k \in 1..Len(calls) : calls[k].kind = "draft"
    /\ \E i, j \in 1..Len(mapRun) :
          /\ mapRun[i].out.value.evidence # mapRun[i].gen
          /\ mapRun[j].out.value.evidence = mapRun[j].gen

-----------------------------------------------------------------------------
(* Specification of the evidence scorer on its own
   (scoreSubsystemRelevantPaths, called up to MaxScoreCalls times on the
   same input) *)

MaxTreePaths == 3
MaxGivenFiles == 2
MaxScoreCalls == 2

PathAuthAuth == <<"s","r","c","/","a","u","t","h","/","a","u","t","h",".","t","s">>
PathUserLogin == <<"s","r","c","/","u","s","e","r","-","l","o","g","i","n","/","f","o","r","m",".","t","s","x">>
PathLicense == <<"L","I","C","E","N","S","E">>
PathVersioned == <<"v","1",".","2","/","M","a","k","e","f","i","l","e">>

\* the example subsystem, and the same with a description naming other files
SubsystemAuthWordy ==
    [SubsystemAuth EXCEPT !.description = <<"R","e","a","d","m","e"," ","a","n","d"," ","s","e","s","s","i","o","n"," ","d","o","c","s">>]
\* relevantPaths and entryPoints differ
SubsystemAuthSplit ==
    [SubsystemAuth EXCEPT !.entryPoints = <<PathSession>>]
\* the name, hyphenated, is in a path while the id is not
SubsystemSignin ==
    Subsystem(<<"s","i","g","n","i","n">>, <<"U","s","e","r"," ","L","o","g","i","n">>, <<PathUserLogin>>)

ScoreSubsystems ==
    {SubsystemAuth, SubsystemAuthWordy, SubsystemAuthSplit, SubsystemSignin, SubsystemOps}

ScorePool == {PathLogin, PathReadme, PathDocs, PathLicense}

\* the cleaned paths of the worked example
ExampleTree == <<PathLogin, PathSession, PathReadme>>

\* a cleaned tree with more than eight paths of positive score
FullTree ==
    <<PathSrcA, PathCart, PathLicense, PathReadme, PathVersioned, PathUserLogin,
      PathSession, PathMakefile, PathDocs, PathAuthAuth, PathLogin>>

IsDuplicateFree(s) == \A i, j \in 1..Len(s) : s[i] = s[j] => i = j

\* files without an extension beside one with
ExtensionTree == <<PathLicense, PathMakefile, PathVersioned, PathReadme>>

ScoreTrees ==
    { s \in SeqsUpTo(ScorePool, MaxTreePaths) : IsDuplicateFree(s) }
      \cup {FullTree, ExtensionTree, ExampleTree}

InitScore ==
    /\ scoreIn \in [ subsystem : ScoreSubsystems,
                      treePaths : ScoreTrees,
                      maxFiles : {<<>>} \cup { <<n>> : n \in 0..MaxGivenFiles } ]
    /\ scoreOut = <<>>
    /\ CiteUnused
    /\ MapUnused
    /\ SigUnused
    /\ ExtUnused
    /\ RunUnused
    /\ WinUnused
    /\ FilterUnused
    /\ FetchUnused
    /\ StoreUnused

ScorePaths ==
    /\ Len(scoreOut) < MaxScoreCalls
    /\ scoreOut' = Append(scoreOut,
                          scoreSubsystemRelevantPaths(scoreIn.subsystem, scoreIn.treePaths,
                                                      scoreIn.maxFiles))
    /\ UNCHANGED <<scoreIn, exceptScore>>

NextScore == ScorePaths

SpecScore == InitScore /\ [][NextScore]_vars

\* What the claims about the scorer speak of, stated from its inputs alone

\* the positions of a text where a maximal run of letters and digits begins,
\* and the lowercased run beginning there
IsAlphaNum(c) == LowerChar(c) \in Range(LowerChars) \cup Range(DigitChars)
RunStarts(s) ==
    { i \in 1..Len(s) : IsAlphaNum(s[i]) /\ (i = 1 \/ ~ IsAlphaNum(s[i - 1])) }
RunEnd(s, i) ==
    CHOOSE j \in i..Len(s) :
        /\ (j = Len(s) \/ ~ IsAlphaNum(s[j + 1]))
        /\ \A k \in i..j : IsAlphaNum(s[k])
RunAt(s, i) == [k \in 1..(RunEnd(s, i) - i + 1) |-> LowerChar(s[i + k - 1])]
TokenStarts(s) == { i \in RunStarts(s) : RunEnd(s, i) - i + 1 >= 3 }

KeywordSet(subsystem) ==
    LET fields == {subsystem.id, subsystem.name, subsystem.description,
                   subsystem.userJourney}
                  \cup Range(subsystem.relevantPaths) \cup Range(subsystem.entryPoints)
    IN  UNION { { RunAt(f, i) : i \in TokenStarts(f) } : f \in fields }

Lowered(s) == [i \in 1..Len(s) |-> LowerChar(s[i])]
Contains(text, part) ==
    \E i \in 1..(Len(text) - Len(part) + 1) :
        \A k \in 1..Len(part) : text[i + k - 1] = part[k]
SpacesToHyphens(s) == [i \in 1..Len(s) |-> IF s[i] = " " THEN "-" ELSE s[i]]

\* the score without the extension weight, in tenths
ClaimedBaseScore(subsystem, path) ==
    (IF \E i \in 1..Len(subsystem.relevantPaths) : subsystem.relevantPaths[i] = path
     THEN 120 ELSE 0)
    + (IF \E i \in 1..Len(subsystem.entryPoints) : subsystem.entryPoints[i] = path
       THEN 100 ELSE 0)
    + 14 * (LET keywordSet == KeywordSet(subsystem)
            IN  Cardinality({ i \in TokenStarts(path) : RunAt(path, i) \in keywordSet }))
    + (IF Contains(Lowered(path), subsystem.id) THEN 30 ELSE 0)
    + (IF Contains(Lowered(path), SpacesToHyphens(Lowered(subsystem.name))) THEN 20 ELSE 0)

\* the text after the last "." of a path, lowercased
AfterLastDot(path) ==
    LET dots == { i \in 1..Len(path) : path[i] = "." }
        last == CHOOSE i \in dots : \A j \in dots : j <= i
    IN  Lowered(SubSeq(path, last + 1, Len(path)))

\* the extension weight as the code gives it, in tenths: nothing for a path
\* without "."
WeightByExtension(path) ==
    IF \A i \in 1..Len(path) : path[i] # "." THEN 0
    ELSE IF AfterLastDot(path) = <<>> THEN 0
    ELSE IF AfterLastDot(path) \in SOURCE_EXTENSIONS THEN 20
    ELSE IF AfterLastDot(path) \in DOC_EXTENSIONS THEN 5
    ELSE 10

\* the claimed terms for every subsystem and path of the inputs
AllScorePaths == UNION { Range(tree) : tree \in ScoreTrees }
ClaimedBaseScores ==
    [ s \in ScoreSubsystems |-> [ p \in AllScorePaths |-> ClaimedBaseScore(s, p) ] ]

BaseScoreOf(path) == ClaimedBaseScores[scoreIn.subsystem][path]
ExpectedScore(path) == BaseScoreOf(path) + WeightByExtension(path)

\* the cap on the list: maxFiles, 8 when it is not given
ScoreCap == IF scoreIn.maxFiles = <<>> THEN 8 ELSE scoreIn.maxFiles[1]

TreePathSet == Range(scoreIn.treePaths)
ReturnedPaths(list) == { list[i].path : i \in 1..Len(list) }

-----------------------------------------------------------------------------
(* C15: scoreSubsystemRelevantPaths is deterministic: two calls with the same
   subsystem, cleaned paths and maxFiles return the same ordered list, and
   for a duplicate-free list of cleaned paths the returned list does not
   depend on the order in which the cleaned paths are listed. *)

Reversed(s) == [i \in 1..Len(s) |-> s[Len(s) + 1 - i]]

\* other listings of the same paths: every permutation of a short list; of
\* a longer one its reversal, its rotations and the reversals of those
Relistings(s) ==
    IF Len(s) <= MaxTreePaths
    THEN { [i \in 1..Len(s) |-> s[f[i]]] :
             f \in { g \in [1..Len(s) -> 1..Len(s)] :
                       \A i, j \in 1..Len(s) : g[i] = g[j] => i = j } }
    ELSE LET shifts == { [i \in 1..Len(s) |-> s[((i + k) % Len(s)) + 1]] : k \in 1..Len(s) }
         IN  shifts \cup { Reversed(r) : r \in shifts }

C15_ScorerDeterministic ==
    /\ \A i, j \in 1..Len(scoreOut) : scoreOut[i] = scoreOut[j]
    \* compared when the first call has returned; later calls return the same
    /\ (Len(scoreOut) = 1 /\ IsDuplicateFree(scoreIn.treePaths)) =>
          \A relisted \in Relistings(scoreIn.treePaths) :
              scoreSubsystemRelevantPaths(scoreIn.subsystem, relisted, scoreIn.maxFiles)
                = scoreOut[1]

\* called twice on three paths of which two tie, the tied ones listed in
\* descending path order
C15_Witness ==
    /\ Len(scoreOut) = 2
    /\ scoreIn.treePaths = <<PathReadme, PathLogin, PathDocs>>
    /\ scoreIn.subsystem = SubsystemAuth
    /\ Len(scoreOut[2]) = 3
    /\ scoreOut[2][2].score = scoreOut[2][3].score
    /\ scoreOut[2][2].path = PathDocs
    /\ scoreOut[2][3].path = PathReadme

-----------------------------------------------------------------------------
(* C16: for every candidate path, the score minus the extension weight is
   12 if the path is exactly in relevantPaths, plus 10 if it is exactly in
   entryPoints, plus 1.4 for every token of the path (repeats counted) that
   is in the keyword set, plus 3 if the lowercased path contains the
   subsystem id, plus 2 if it contains the lowercased name with spaces
   replaced by hyphens; the keyword set holds the lowercase alphanumeric
   tokens of length >= 3 of id, name, description, userJourney,
   relevantPaths and entryPoints.  Scores are in tenths. *)

C16_ScoreIsSumOfTerms ==
    \A c \in 1..Len(scoreOut) :
      /\ \A i \in 1..Len(scoreOut[c]) :
            scoreOut[c][i].score - extensionWeight(scoreOut[c][i].path)
              = BaseScoreOf(scoreOut[c][i].path)
      \* a path left out of an uncut list has no positive score
      /\ Len(scoreOut[c]) < ScoreCap =>
            \A p \in TreePathSet \ ReturnedPaths(scoreOut[c]) :
                BaseScoreOf(p) + extensionWeight(p) <= 0

\* src/auth/auth.ts scores 1.4 three times (src, auth, auth) and 3 for the
\* id; src/user-login/form.tsx scores for its five tokens and the hyphenated
\* name but not for the id; the entry
\* point that is not a relevant path scores 10 without the 12
C16_Witness ==
    /\ Len(scoreOut) >= 1
    /\ scoreIn.treePaths = FullTree
    /\ \/ /\ scoreIn.subsystem = SubsystemAuth
          /\ \E i \in 1..Len(scoreOut[1]) :
                scoreOut[1][i] = [path |-> PathAuthAuth, score |-> 42 + 30 + 20]
       \/ /\ scoreIn.subsystem = SubsystemSignin
          /\ \E i \in 1..Len(scoreOut[1]) :
                scoreOut[1][i] = [path |-> PathUserLogin,
                                  score |-> 120 + 100 + 70 + 20 + 20]
       \/ /\ scoreIn.subsystem = SubsystemAuthSplit
          /\ \E i \in 1..Len(scoreOut[1]) :
                scoreOut[1][i] = [path |-> PathSession,
                                  score |-> 100 + 42 + 30 + 20]

-----------------------------------------------------------------------------
(* C17: the extension weight added to every candidate path's score is 2 for
   a common source-code extension, 0.5 for a doc/config extension and 1 for
   every other path, paths without an extension included; so every candidate
   path scores at least 0.5 and none is dropped as zero-score. *)

\* the weight as claimed, in tenths
ClaimedWeight(path) ==
    IF (\E i \in 1..Len(path) : path[i] = ".") /\ AfterLastDot(path) \in SOURCE_EXTENSIONS
    THEN 20
    ELSE IF (\E i \in 1..Len(path) : path[i] = ".") /\ AfterLastDot(path) \in DOC_EXTENSIONS
    THEN 5
    ELSE 10

\* as claimed: refuted by a path without "." such as LICENSE
C17_EveryPathWeightedAndKept ==
    \A c \in 1..Len(scoreOut) :
      /\ \A i \in 1..Len(scoreOut[c]) :
            /\ scoreOut[c][i].score - BaseScoreOf(scoreOut[c][i].path)
                  = ClaimedWeight(scoreOut[c][i].path)
            /\ scoreOut[c][i].score >= 5
      /\ Len(scoreOut[c]) < ScoreCap => ReturnedPaths(scoreOut[c]) = TreePathSet

(* C17, amended: the extension weight is 2 for a source-code extension, 0.5
   for a doc/config extension, 1 for any other text after the last "." of
   the path, and 0 for a path with no "." (or nothing after its last ".");
   a path is dropped as zero-score exactly when its weight is 0 and no other
   term of the score applies to it. *)
C17_NoWeightWithoutExtension ==
    \A c \in 1..Len(scoreOut) :
      /\ \A i \in 1..Len(scoreOut[c]) :
            scoreOut[c][i].score - BaseScoreOf(scoreOut[c][i].path)
              = WeightByExtension(scoreOut[c][i].path)
      /\ Len(scoreOut[c]) < ScoreCap =>
            TreePathSet \ ReturnedPaths(scoreOut[c])
              = { p \in TreePathSet :
                    /\ WeightByExtension(p) = 0
                    /\ BaseScoreOf(p) = 0 }

\* for the subsystem naming Makefile: Makefile is kept on its other terms
\* with weight 0, v1.2/Makefile gets weight 1, LICENSE is dropped
C17_Witness ==
    /\ Len(scoreOut) >= 1
    /\ scoreIn.subsystem = SubsystemOps
    /\ scoreIn.treePaths = ExtensionTree
    /\ scoreIn.maxFiles = <<>>
    /\ scoreOut[1] = << [path |-> PathMakefile, score |-> 120 + 100 + 14],
                        [path |-> PathVersioned, score |-> 14 + 10],
                        [path |-> PathReadme, score |-> 5] >>

-----------------------------------------------------------------------------
(* C18: the returned list holds only cleaned paths of score > 0, is sorted
   by descending score with ties broken by ascending path, has at most
   maxFiles entries (8 when maxFiles is not given), and is a prefix of the
   full ranking: no left-out path of positive score ranks before a returned
   one.  Ascending is the order of localeCompare, the code's comparison. *)

\* p comes before q in the full ranking of the subsystem's cleaned paths
RanksAhead(p, q) ==
    LET sp == ExpectedScore(p)
        sq == ExpectedScore(q)
    IN  \/ sp > sq
        \/ (sp = sq /\ LocaleBefore(p, q))

PositivePaths == { p \in TreePathSet : ExpectedScore(p) > 0 }

C18_PositiveSortedCappedPrefix ==
    \A c \in 1..Len(scoreOut) :
      LET list == scoreOut[c]
      IN  /\ \A i \in 1..Len(list) :
                /\ list[i].path \in PositivePaths
                /\ list[i].score = ExpectedScore(list[i].path)
          /\ \A i, j \in 1..Len(list) :
                i < j => RanksAhead(list[i].path, list[j].path)
          /\ Len(list) <= ScoreCap
          /\ Len(list) = Min(ScoreCap, Cardinality(PositivePaths))
          /\ \A q \in PositivePaths \ ReturnedPaths(list) :
                \A i \in 1..Len(list) : ~ RanksAhead(q, list[i].path)

\* ten of eleven paths score for the subsystem, eight are returned by
\* default; five of them tie and come in path order, the two tied doc files
\* are left out
C18_Witness ==
    /\ Len(scoreOut) >= 1
    /\ scoreIn.subsystem = SubsystemOps
    /\ scoreIn.treePaths = FullTree
    /\ scoreIn.maxFiles = <<>>
    /\ Cardinality(PositivePaths) = 10
    /\ [i \in 1..Len(scoreOut[1]) |-> scoreOut[1][i].path]
          = <<PathMakefile, PathVersioned, PathSrcA, PathAuthAuth, PathLogin,
              PathSession, PathCart, PathUserLogin>>

-----------------------------------------------------------------------------
(* C19: for the cleaned paths [src/auth/login.ts, src/auth/session.ts,
   README.md] and a subsystem with id auth, name Authentication,
   relevantPaths [src/auth/login.ts] and entryPoints [src/auth/login.ts],
   the scorer returns the three paths in the order src/auth/login.ts,
   src/auth/session.ts, README.md, with strictly decreasing scores. *)

IsExampleSubsystem(s) ==
    /\ s.id = <<"a","u","t","h">>
    /\ s.name = <<"A","u","t","h","e","n","t","i","c","a","t","i","o","n">>
    /\ s.relevantPaths = <<PathLogin>>
    /\ s.entryPoints = <<PathLogin>>

C19_ExampleRanking ==
    ( /\ Len(scoreOut) >= 1
      /\ IsExampleSubsystem(scoreIn.subsystem)
      /\ scoreIn.treePaths = ExampleTree
      /\ scoreIn.maxFiles = <<>> ) =>
      \A c \in 1..Len(scoreOut) :
        /\ [i \in 1..Len(scoreOut[c]) |-> scoreOut[c][i].path]
              = <<PathLogin, PathSession, PathReadme>>
        /\ scoreOut[c][1].score > scoreOut[c][2].score
        /\ scoreOut[c][2].score > scoreOut[c][3].score

\* the example with a description that names the other two files: the
\* scores are 31.2, 9.2 and 1.9
C19_Witness ==
    /\ Len(scoreOut) >= 1
    /\ scoreIn.subsystem = SubsystemAuthWordy
    /\ IsExampleSubsystem(scoreIn.subsystem)
    /\ scoreIn.treePaths = ExampleTree
    /\ scoreIn.maxFiles = <<>>
    /\ scoreOut[1] = << [path |-> PathLogin, score |-> 312],
                        [path |-> PathSession, score |-> 92],
                        [path |-> PathReadme, score |-> 19] >>

-----------------------------------------------------------------------------
(* Specification of the numbered context window on its own
   (buildNumberedContextWindow, then toNumberedContent of the same text) *)

MaxWindowLines == 5
MaxWindowEdge == 3

\* a text of n lines, the i-th being the i-th letter
LettersText(n) ==
    [i \in 1..(2 * n - 1) |-> IF i % 2 = 1 THEN LowerChars[(i + 1) \div 2] ELSE "\n"]

WindowTexts ==
    { LettersText(n) : n \in 1..MaxWindowLines }
      \cup { <<>>, <<"a","\n","\n","c","\n">> }

InitWindow ==
    /\ winIn \in [ content : WindowTexts,
                    maxLines : 0..MaxWindowLines,
                    headLines : 0..MaxWindowEdge,
                    tailLines : 0..MaxWindowEdge ]
    /\ winOut = <<>>
    /\ CiteUnused
    /\ MapUnused
    /\ SigUnused
    /\ ExtUnused
    /\ RunUnused
    /\ ScoreUnused
    /\ FilterUnused
    /\ FetchUnused
    /\ StoreUnused

BuildWindow ==
    /\ winOut = <<>>
    /\ winOut' = << buildNumberedContextWindow(winIn.content, winIn.maxLines,
                                               winIn.headLines, winIn.tailLines) >>
    /\ UNCHANGED <<winIn, exceptWin>>

\* the same text numbered whole (toNumberedContent), after its window
NumberAll ==
    /\ Len(winOut) = 1
    /\ winOut' = winOut \o << toNumberedContent(winIn.content) >>
    /\ UNCHANGED <<winIn, exceptWin>>

NextWindow == BuildWindow \/ NumberAll

SpecWindow == InitWindow /\ [][NextWindow]_vars

\* What the claim about the window speaks of

\* N: the lines of the text
WindowTotal == Cardinality({ i \in 1..Len(winIn.content) : winIn.content[i] = "\n" }) + 1

OutLines == split(winOut[1], "\n")

\* a numbered line begins with a blank or a digit, the marker with "."
IsMarkerLine(line) == Len(line) >= 1 /\ line[1] = "."
MarkerLines == { i \in 1..Len(OutLines) : IsMarkerLine(OutLines[i]) }
NumberedLines == (1..Len(OutLines)) \ MarkerLines

\* the line number a numbered line shows in its first five columns
ShownNumber(i) == parseInt(TrimLeft(SubSeq(OutLines[i], 1, 5)))

\* the count a marker line states between "... (" and " lines omitted) ..."
StatedOmitted(i) ==
    LET line == OutLines[i]
        stop == CHOOSE k \in 6..Len(line) :
                    line[k] = " " /\ \A j \in 6..(k - 1) : line[j] # " "
    IN  parseInt(SubSeq(line, 6, stop - 1))

\* head and tail do not overlap: the shown numbers increase down the output
NumbersIncrease ==
    \A i, j \in NumberedLines : i < j => ShownNumber(i) < ShownNumber(j)

Windowed == winOut # <<>> /\ winIn.maxLines < WindowTotal

-----------------------------------------------------------------------------
(* C20: for a text of N lines and any maxLines < N, with any headLines and
   tailLines >= 0, the numbered ranges of head and tail in the window never
   overlap, the window has exactly headLines + tailLines + 1 lines (head,
   one marker, tail), and its marker states N - headLines - tailLines
   omitted lines. *)

\* as claimed: refuted when headLines + tailLines exceeds N
C20_WindowHeadMarkerTail ==
    Windowed =>
      /\ NumbersIncrease
      /\ Cardinality(MarkerLines) = 1
      /\ Len(OutLines) = winIn.headLines + winIn.tailLines + 1
      /\ \A m \in MarkerLines :
            StatedOmitted(m) = WindowTotal - winIn.headLines - winIn.tailLines

(* C20, amended: for maxLines < N the window is the first min(headLines, N)
   lines, one marker and the last lines from max(N - tailLines, min(headLines,
   N)) + 1 on; head and tail never overlap and the marker states the number
   of lines shown in neither.  When headLines + tailLines <= N that is
   headLines + tailLines + 1 output lines and N - headLines - tailLines
   omitted; otherwise all N lines are shown, in N + 1 output lines, and the
   marker states 0. *)
C20_WindowClampedToText ==
    Windowed =>
      /\ NumbersIncrease
      /\ Cardinality(MarkerLines) = 1
      /\ \A m \in MarkerLines :
            /\ m = Min(winIn.headLines, WindowTotal) + 1
            /\ { ShownNumber(i) : i \in NumberedLines } \subseteq 1..WindowTotal
            /\ StatedOmitted(m) = WindowTotal - Cardinality(NumberedLines)
      /\ IF winIn.headLines + winIn.tailLines <= WindowTotal
         THEN /\ Len(OutLines) = winIn.headLines + winIn.tailLines + 1
              /\ \A m \in MarkerLines :
                    StatedOmitted(m) = WindowTotal - winIn.headLines - winIn.tailLines
         ELSE /\ Len(OutLines) = WindowTotal + 1
              /\ \A m \in MarkerLines : StatedOmitted(m) = 0

\* five lines, maxLines 3, two head lines and one tail line
C20_Witness ==
    /\ winIn = [content |-> LettersText(5), maxLines |-> 3, headLines |-> 2,
                tailLines |-> 1]
    /\ winOut # <<>>
    /\ winOut[1] = <<" "," "," "," ","1"," ","|"," ","a","\n"," "," "," "," ","2"," ","|"," ","b","\n",".",".","."," ","(","2"," ","l","i","n","e","s"," ","o","m","i","t","t","e","d",")"," ",".",".",".","\n"," "," "," "," ","5"," ","|"," ","e">>

-----------------------------------------------------------------------------
(* C21: in every output of the window and of the whole numbering, each
   numbered line carries the true 1-based index of a line of the source text
   together with that line's content; the tail of a window is numbered from
   tailStart = max(total - tailLines + 1, headEnd + 1) up to total, no line
   number is shown twice, and the omitted count of the marker is the number
   of source lines not shown, never negative. *)

\* the source text line by line, cut at each line feed
SourceLineStarts ==
    {1} \cup { i + 1 : i \in { k \in 1..Len(winIn.content) : winIn.content[k] = "\n" } }
SourceLineAt(start) ==
    LET stop == CHOOSE k \in start..(Len(winIn.content) + 1) :
                    /\ (k = Len(winIn.content) + 1 \/ winIn.content[k] = "\n")
                    /\ \A j \in start..(k - 1) : winIn.content[j] # "\n"
    IN  SubSeq(winIn.content, start, stop - 1)
\* the n-th source line: the one with n - 1 line starts before its own
SourceLine(n) ==
    LET start == CHOOSE s \in SourceLineStarts :
                    Cardinality({ r \in SourceLineStarts : r < s }) = n - 1
    IN  SourceLineAt(start)

LinesOfOutput(k) == split(winOut[k], "\n")
NumberedIn(k) == { i \in 1..Len(LinesOfOutput(k)) : ~ IsMarkerLine(LinesOfOutput(k)[i]) }
MarkersIn(k) == { i \in 1..Len(LinesOfOutput(k)) : IsMarkerLine(LinesOfOutput(k)[i]) }
NumberShown(k, i) == parseInt(TrimLeft(SubSeq(LinesOfOutput(k)[i], 1, 5)))
ContentShown(k, i) == SubSeq(LinesOfOutput(k)[i], 9, Len(LinesOfOutput(k)[i]))
NumbersShown(k) == { NumberShown(k, i) : i \in NumberedIn(k) }

ClaimedHeadEnd == Min(winIn.headLines, WindowTotal)
ClaimedTailStart == Max(WindowTotal - winIn.tailLines + 1, ClaimedHeadEnd + 1)

C21_TrueLineNumbers ==
    /\ \A k \in 1..Len(winOut) :
          /\ \A i \in NumberedIn(k) :
                /\ Len(LinesOfOutput(k)[i]) >= 8
                /\ SubSeq(LinesOfOutput(k)[i], 6, 8) = <<" ","|"," ">>
                /\ NumberShown(k, i) \in 1..WindowTotal
                /\ ContentShown(k, i) = SourceLine(NumberShown(k, i))
          /\ \A i, j \in NumberedIn(k) :
                i # j => NumberShown(k, i) # NumberShown(k, j)
    /\ Windowed =>
          /\ NumbersShown(1) = (1..ClaimedHeadEnd) \cup (ClaimedTailStart..WindowTotal)
          /\ \A m \in MarkersIn(1) :
                /\ StatedOmitted(m) = Cardinality((1..WindowTotal) \ NumbersShown(1))
                /\ StatedOmitted(m) >= 0
    /\ (winOut # <<>> /\ ~ Windowed) =>
          MarkersIn(1) = {} /\ NumbersShown(1) = 1..WindowTotal
    /\ Len(winOut) = 2 =>
          MarkersIn(2) = {} /\ NumbersShown(2) = 1..WindowTotal

\* five lines, maxLines 3, one head line and two tail lines: the tail keeps
\* the numbers 4 and 5, and the whole numbering shows 1 to 5
C21_Witness ==
    /\ winIn = [content |-> LettersText(5), maxLines |-> 3, headLines |-> 1,
                tailLines |-> 2]
    /\ Len(winOut) = 2
    /\ NumbersShown(1) = {1, 4, 5}
    /\ ContentShown(1, 3) = <<"d">>
    /\ \A m \in MarkersIn(1) : StatedOmitted(m) = 2
    /\ NumbersShown(2) = 1..5

-----------------------------------------------------------------------------
(* Specification of the path filter on its own (cleanTreePaths), applied to
   a raw list and then to its own result *)

MaxRawPaths == 3

PathDistPadded == <<" ">> \o PathDist
PathUnderTests == <<"s","r","c","/","t","e","s","t","s","/","a",".","t","s">>
DirMarker == <<"d","o","c","s","/">>

RawPool ==
    { PathSrcA, PathSrcAPadded, PathReadme, PathDist, PathDistPadded, PathLock,
      PathLogo, PathUnderTests, DirMarker, BlankPath, <<>> }

InitFilter ==
    /\ filterIn \in SeqsUpTo(RawPool, MaxRawPaths)
    /\ filterOut = <<>>
    /\ CiteUnused
    /\ MapUnused
    /\ SigUnused
    /\ ExtUnused
    /\ RunUnused
    /\ ScoreUnused
    /\ WinUnused
    /\ FetchUnused
    /\ StoreUnused

CleanPaths ==
    /\ filterOut = <<>>
    /\ filterOut' = << cleanTreePaths(filterIn) >>
    /\ UNCHANGED <<filterIn, exceptFilter>>

\* cleanTreePaths of the list it returned
CleanAgain ==
    /\ Len(filterOut) = 1
    /\ filterOut' = filterOut \o << cleanTreePaths(filterOut[1]) >>
    /\ UNCHANGED <<filterIn, exceptFilter>>

NextFilter == CleanPaths \/ CleanAgain

SpecFilter == InitFilter /\ [][NextFilter]_vars

\* What the claims about the filter speak of

\* a path without its leading and trailing blanks
Stripped(p) ==
    LET inked == { i \in 1..Len(p) : p[i] \notin WhitespaceChars }
    IN  IF inked = {} THEN <<>>
        ELSE SubSeq(p, CHOOSE i \in inked : \A j \in inked : i <= j,
                       CHOOSE i \in inked : \A j \in inked : j <= i)

\* the segments of a path: the texts between its separators
SegmentStarts(p) == {1} \cup { i + 1 : i \in { k \in 1..Len(p) : p[k] = "/" } }
SegmentFrom(p, start) ==
    LET stop == CHOOSE k \in start..(Len(p) + 1) :
                    /\ (k = Len(p) + 1 \/ p[k] = "/")
                    /\ \A j \in start..(k - 1) : p[j] # "/"
    IN  SubSeq(p, start, stop - 1)
SegmentsOf(p) == { SegmentFrom(p, start) : start \in SegmentStarts(p) }
Basename(p) ==
    SegmentFrom(p, CHOOSE s \in SegmentStarts(p) : \A r \in SegmentStarts(p) : r <= s)

\* the five rules of the filter
IsEligible(p) ==
    /\ p # <<>>
    /\ p[Len(p)] # "/"
    /\ SegmentsOf(p) \cap SKIP_DIR_SEGMENTS = {}
    /\ Basename(p) \notin LOCKFILE_NAMES
    /\ ("." \in Range(Basename(p))) => AfterLastDot(Basename(p)) \notin BINARY_EXTENSIONS

FilterDone == Len(filterOut) >= 1
FilterRerun == Len(filterOut) = 2

\* the input paths as the filter reads them, blanks stripped
StrippedInput == [i \in 1..Len(filterIn) |-> Stripped(filterIn[i])]

\* the eligible paths of a list, each once, in the order of first occurrence
FirstOccurrences(list) ==
    SelectIdx(list, { i \in 1..Len(list) :
                        IsEligible(list[i]) /\ \A j \in 1..(i - 1) : list[j] # list[i] }, 1)

-----------------------------------------------------------------------------
(* C22: the filter is idempotent: for any path list P, with duplicate
   entries and with entries padded by blanks, filtering the filtered list
   gives the filtered list again, as an ordered list. *)
C22_FilterIdempotent ==
    FilterRerun => filterOut[2] = filterOut[1]

\* the filter applied to [" src/a.ts ", "src/a.ts"] and to its result
C22_Witness ==
    /\ filterIn = <<PathSrcAPadded, PathSrcA>>
    /\ FilterRerun
    /\ filterOut[1] = <<PathSrcA, PathSrcA>>
    /\ filterOut[2] = <<PathSrcA>>

\* what does hold: a second pass changes nothing but the repeated paths
C22_RerunOnlyDropsRepeats ==
    FilterRerun => filterOut[2] = Dedupe(filterOut[1])

-----------------------------------------------------------------------------
(* C23: the list the filter returns has set semantics: no path occurs in it
   more than once, for any input list, also when entries become equal only
   after their blanks are trimmed. *)
C23_FilterReturnsNoPathTwice ==
    FilterDone => IsDuplicateFree(filterOut[1])

\* two raw entries that differ only in their blanks are both returned
C23_Witness ==
    /\ filterIn = <<PathSrcAPadded, PathReadme, PathSrcA>>
    /\ FilterDone
    /\ filterOut[1] = <<PathSrcA, PathReadme, PathSrcA>>

\* what does hold: a path is returned once for each distinct raw entry that
\* trims to it
C23_OncePerDistinctRawEntry ==
    FilterDone =>
      \A p \in Range(filterOut[1]) :
          Cardinality({ i \in 1..Len(filterOut[1]) : filterOut[1][i] = p })
            = Cardinality({ raw \in Range(filterIn) : Stripped(raw) = p })

-----------------------------------------------------------------------------
(* C24: the filter returns, in the order of first occurrence in the input,
   exactly the input paths that are non-empty, do not end with a separator,
   have no segment of the deny-set, no lockfile basename and no
   binary/media/executable extension: no returned path breaks a rule and no
   input path that meets them all is missing.  Paths are compared as the
   filter reads them, without leading and trailing blanks. *)
C24_ExactlyEligibleInFirstOccurrenceOrder ==
    FilterDone => filterOut[1] = FirstOccurrences(StrippedInput)

\* the eligible paths are returned in input order, but src/a.ts twice
C24_Witness ==
    /\ filterIn = <<PathDist, PathSrcA, PathSrcAPadded>>
    /\ FilterDone
    /\ filterOut[1] = <<PathSrcA, PathSrcA>>
    /\ FirstOccurrences(StrippedInput) = <<PathSrcA>>

\* what does hold: the rules are applied soundly and completely, and the
\* order is that of the input; only the repeats differ
C24_RulesSoundAndComplete ==
    FilterDone =>
      /\ \A p \in Range(filterOut[1]) : IsEligible(p)
      /\ Range(filterOut[1]) = { p \in Range(StrippedInput) : IsEligible(p) }
      /\ Dedupe(filterOut[1]) = FirstOccurrences(StrippedInput)
      /\ IsDuplicateFree(StrippedInput) => filterOut[1] = FirstOccurrences(StrippedInput)

-----------------------------------------------------------------------------
(* C25: within one run every subsystem id is unique: no successful
   extraction, and so no evidence mapping, page drafting or cached result,
   holds two subsystems with the same id. *)
C25_SubsystemIdsUnique ==
    (extPc = "done" /\ extOut.ok) =>
      \A i, j \in 1..Len(extOut.value.subsystems) :
          extOut.value.subsystems[i].id = extOut.value.subsystems[j].id => i = j

\* an accepted list with "Authentication" and "Sign In Flow" both under the
\* id auth
C25_Witness ==
    /\ extPc = "done"
    /\ extOut.ok
    /\ \E i, j \in 1..Len(extOut.value.subsystems) :
          /\ i < j
          /\ extOut.value.subsystems[i].id = SubsystemIdAuth
          /\ extOut.value.subsystems[j].id = SubsystemIdAuth
          /\ extOut.value.subsystems[i].name = SubsystemNameAuth
          /\ extOut.value.subsystems[j].name = <<"S","i","g","n"," ","I","n"," ","F","l","o","w">>

-----------------------------------------------------------------------------
(* What the claims about the cache speak of *)

\* the key of the request being served
RequestKey == buildAnalyzeCacheKey(RepoOwner, RepoName, req.headSha)

\* the request being served has been answered
Answered == pc = "idle" /\ served > 0

\* the request being served resolved a head commit for which the store held
\* a record when it arrived
FoundRecord == req.headSha # <<>> /\ RequestKey \in DOMAIN kvBefore.records

(* C26: a cache record is never mutated in place: once a record is stored
   under the key of {owner, repo, headSha}, no later request, with or
   without forceRefresh, changes the content stored under that key. *)
C26_StoredRecordNeverChanges ==
    \A key \in DOMAIN kvBefore.records :
        /\ key \in DOMAIN kv.records
        /\ kv.records[key] = kvBefore.records[key]

\* a forced refresh of a cached commit has replaced the record under its key
C26_Witness ==
    /\ Answered
    /\ req.forceRefresh
    /\ FoundRecord
    /\ response.source = "fresh"
    /\ kv.records[RequestKey].createdAt = 2
    /\ kvBefore.records[RequestKey].createdAt = 1

\* what does hold: only a forced refresh that succeeds replaces a record
C26_OnlyForcedRefreshReplaces ==
    \A key \in DOMAIN kvBefore.records :
        /\ key \in DOMAIN kv.records
        /\ kv.records[key] # kvBefore.records[key] =>
              /\ req.forceRefresh
              /\ key = RequestKey
              /\ Answered
              /\ response.source = "fresh"

-----------------------------------------------------------------------------
(* C27: after a fresh run for {owner, repo, headSha} has succeeded and
   written its record, reading the cache with the same key returns that
   record, so a following request for the same head commit without
   forceRefresh is answered with source "cache", with no tree fetch and no
   generation call. *)
C27_FreshRecordServesNextRequest ==
    /\ (Answered /\ response.source = "fresh") =>
          /\ readAnalyzeCacheFromKv(kv, RequestKey) # <<>>
          /\ ReadyResponse("fresh", readAnalyzeCacheFromKv(kv, RequestKey)[1]) = response
    /\ (served > 0 /\ FoundRecord /\ ~ req.forceRefresh) =>
          /\ Answered
          /\ response = ReadyResponse("cache", kvBefore.records[RequestKey])
          /\ calls = <<>>
          /\ cleanedPaths = <<>>
          /\ kv = kvBefore

\* the second request, for the commit the first one analysed, is served
\* from the cache
C27_Witness ==
    /\ served = 2
    /\ Answered
    /\ ~ req.forceRefresh
    /\ req.headSha = ShaFirst
    /\ response.source = "cache"
    /\ response.createdAt = 1
    /\ response.wikiPages # <<>>
    /\ calls = <<>>

-----------------------------------------------------------------------------
(* lib/utils/errors.ts and lib/github/client.ts: getSelectedFileContents with
   its worker loops and per-path retries *)

DEFAULT_MAX_RETRIES == 3
DEFAULT_FETCH_CONCURRENCY == 8
MAX_FETCH_CONCURRENCY == 20

\* a value thrown by a fetch: an Error with a message, or something else
ThrownError(message) == [isError |-> TRUE, message |-> message]
ThrownValue(message) == [isError |-> FALSE, message |-> message]

\* /timeout|rate.?limit|429|5\d\d/i tested on the message
MatchesRetryablePattern(message) ==
    LET m == toLowerCase(message)
    IN  \/ Includes(m, <<"t","i","m","e","o","u","t">>)
        \/ Includes(m, <<"r","a","t","e","l","i","m","i","t">>)
        \/ \E i \in 1..(Len(m) - 9) :
              /\ SubSeq(m, i, i + 3) = <<"r","a","t","e">>
              /\ m[i + 4] # "\n"
              /\ SubSeq(m, i + 5, i + 9) = <<"l","i","m","i","t">>
        \/ Includes(m, <<"4","2","9">>)
        \/ \E i \in 1..(Len(m) - 2) :
              /\ m[i] = "5"
              /\ m[i + 1] \in Range(DigitChars)
              /\ m[i + 2] \in Range(DigitChars)

isRetryableError(error) ==
    IF ~ error.isError THEN FALSE ELSE MatchesRetryablePattern(error.message)

\* params.maxRetries ?? DEFAULT_MAX_RETRIES
MaxRetriesOf(params) ==
    IF params.maxRetries = <<>> THEN DEFAULT_MAX_RETRIES ELSE params.maxRetries[1]

\* Math.max(1, Math.min(params.concurrency ?? DEFAULT_FETCH_CONCURRENCY, 20))
ConcurrencyOf(params) ==
    Max(1, Min(IF params.concurrency = <<>> THEN DEFAULT_FETCH_CONCURRENCY
               ELSE params.concurrency[1], MAX_FETCH_CONCURRENCY))

\* [...new Set(params.paths)].filter(shouldIncludePath)
UniquePathsOf(params) == FilterIncluded(Dedupe(params.paths))

\* Array.from({ length: Math.min(concurrency, uniquePaths.length) }, ...)
WorkerCountOf(params) == Min(ConcurrencyOf(params), Len(UniquePathsOf(params)))

\* (mutation: a failure is retried whatever its kind)
GivesUpOnlyAtCeiling(attempt, maxRetries, error) == attempt > maxRetries

\* attempt > maxRetries || !isRetryableError(error)
GivesUp(attempt, maxRetries, error) ==
    attempt > maxRetries \/ ~ isRetryableError(error)

\* (mutation: the cursor is left where it was)
CursorNotAdvanced(cur) == cur

\* cursor += 1
CursorAfterClaim(cur) ==
    cur + 1

\* how a fetch attempt ended, as fetchLog keeps it
AttemptResolved == [resolved |-> TRUE, error |-> ThrownValue(<<>>)]
AttemptRejected(error) == [resolved |-> FALSE, error |-> error]

FetchFailed(path) ==
    [ok |-> FALSE, code |-> "GITHUB_FETCH_FAILED", statusCode |-> 502, path |-> path]
FetchReturned(files) == [ok |-> TRUE, files |-> files]

\* collected.filter(file => Boolean(file))
CollectedFiles(slots) ==
    LET kept == FilterSeq(slots, { i \in 1..Len(slots) : slots[i] # <<>> })
    IN  [i \in 1..Len(kept) |-> kept[i][1]]

WorkerFetching(index) == [at |-> "fetching", index |-> index, attempt |-> 0]
WorkerDone == [at |-> "done", index |-> 0, attempt |-> 0]

\* the top of a worker's loop: index = cursor; cursor += 1; stop when the
\* index is past the list, otherwise start fetching uniquePaths[index]
LoopTop(cur, count) ==
    IF cur >= count THEN WorkerDone ELSE WorkerFetching(cur)

\* Promise.all(workers) once every worker has ended without throwing
SettledWhenAllDone(ws, slots, out) ==
    IF out = <<>> /\ \A w \in 1..Len(ws) : ws[w].at = "done"
    THEN << FetchReturned(CollectedFiles(slots)) >>
    ELSE out

-----------------------------------------------------------------------------
(* Specification of getSelectedFileContents on its own: each fetch attempt
   may resolve or reject, in any order across the workers *)

MaxFetchPaths == 3

\* what a fetch attempt may throw
ErrTimeout == ThrownError(<<"R","e","q","u","e","s","t"," ","T","i","m","e","o","u","t">>)
ErrNotFound == ThrownError(<<"N","o","t"," ","F","o","u","n","d">>)
ErrTextTimeout == ThrownValue(<<"t","i","m","e","o","u","t">>)
FetchErrors == {ErrTimeout, ErrNotFound, ErrTextTimeout}

FetchPool == {PathLogin, PathReadme, PathDist}

\* lists with repeated and ineligible paths, and one of three eligible paths
\* of which src/big.ts is too large to be returned
FetchLists ==
    SeqsUpTo(FetchPool, MaxFetchPaths) \cup { <<PathReadme, PathBig, PathLogin>> }

InitFetch ==
    /\ fetchIn \in [ paths : FetchLists,
                      maxRetries : {<<>>, <<0>>, <<1>>},
                      concurrency : {<<>>, <<0>>, <<2>>} ]
    /\ cursor = 0
    /\ collected = <<>>
    /\ workers = <<>>
    /\ fetchLog = <<>>
    /\ claimed = <<>>
    /\ fetchOut = <<>>
    /\ CiteUnused
    /\ MapUnused
    /\ SigUnused
    /\ ExtUnused
    /\ RunUnused
    /\ ScoreUnused
    /\ WinUnused
    /\ FilterUnused
    /\ StoreUnused

\* the call: the slots are made and every worker runs to its first await,
\* one worker after the other
StartWorkers ==
    LET count == Len(UniquePathsOf(fetchIn))
        n == WorkerCountOf(fetchIn)
        \* the cursor as the k-th worker finds it
        cursorAt == [k \in 1..(n + 1) |-> k - 1]
        started == [k \in 1..n |-> LoopTop(cursorAt[k], count)]
    IN  /\ workers = <<>>
        /\ fetchOut = <<>>
        /\ collected' = [i \in 1..count |-> <<>>]
        /\ fetchLog' = [i \in 1..count |-> <<>>]
        /\ workers' = started
        /\ cursor' = IF n = 0 THEN 0
                      ELSE CursorAfterClaim(cursorAt[n])
        /\ claimed' = [k \in 1..n |-> cursorAt[k]]
        /\ fetchOut' = SettledWhenAllDone(started, collected', <<>>)
        /\ UNCHANGED <<fetchIn, exceptFetch>>

\* a fetch resolves: the slot is filled and the worker takes the next index
FetchResolves(w) ==
    LET count == Len(UniquePathsOf(fetchIn))
        index == workers[w].index
        path == UniquePathsOf(fetchIn)[index + 1]
        next == LoopTop(cursor, count)
    IN  /\ workers[w].at = "fetching"
        /\ collected' = [collected EXCEPT ![index + 1] = fetchSingleFile(path)]
        /\ fetchLog' = [fetchLog EXCEPT ![index + 1] = Append(@, AttemptResolved)]
        /\ workers' = [workers EXCEPT ![w] = next]
        /\ cursor' = CursorAfterClaim(cursor)
        /\ claimed' = IF next.at = "fetching" THEN Append(claimed, cursor) ELSE claimed
        /\ fetchOut' = SettledWhenAllDone(workers', collected', fetchOut)
        /\ UNCHANGED <<fetchIn, exceptFetch>>

\* a fetch rejects: the worker gives up and throws, or sleeps before a retry
FetchRejects(w, error) ==
    LET index == workers[w].index
        path == UniquePathsOf(fetchIn)[index + 1]
        attempt == workers[w].attempt + 1
    IN  /\ workers[w].at = "fetching"
        /\ fetchLog' = [fetchLog EXCEPT ![index + 1] = Append(@, AttemptRejected(error))]
        /\ IF GivesUp(attempt, MaxRetriesOf(fetchIn), error)
           THEN /\ workers' = [workers EXCEPT ![w] =
                                 [at |-> "threw", index |-> index, attempt |-> attempt]]
                /\ fetchOut' = IF fetchOut = <<>> THEN << FetchFailed(path) >>
                               ELSE fetchOut
           ELSE /\ workers' = [workers EXCEPT ![w] =
                                 [at |-> "sleeping", index |-> index, attempt |-> attempt]]
                /\ UNCHANGED fetchOut
        /\ UNCHANGED <<fetchIn, cursor, collected, claimed, exceptFetch>>

\* the backoff sleep ends: the next attempt is issued
BackoffEnds(w) ==
    /\ workers[w].at = "sleeping"
    /\ workers[w].attempt <= MaxRetriesOf(fetchIn)
    /\ workers' = [workers EXCEPT ![w].at = "fetching"]
    /\ UNCHANGED <<fetchIn, cursor, collected, fetchLog, claimed, fetchOut, exceptFetch>>

NextFetch ==
    \/ StartWorkers
    \/ \E w \in 1..Len(workers) : FetchResolves(w)
    \/ \E w \in 1..Len(workers), error \in FetchErrors : FetchRejects(w, error)
    \/ \E w \in 1..Len(workers) : BackoffEnds(w)

SpecFetch == InitFetch /\ [][NextFetch]_vars

\* What the claims about the file fetches speak of

FetchStarted == workers # <<>> \/ fetchOut # <<>>

\* the unique eligible paths of the call, in input order
EligiblePaths == UniquePathsOf(fetchIn)

\* the attempt ceiling of the call: maxRetries + 1
AttemptCeiling ==
    (IF fetchIn.maxRetries = <<>> THEN 3 ELSE fetchIn.maxRetries[1]) + 1

\* the workers busy with the path at position i, fetching or sleeping
FetchingAt(i) ==
    { w \in 1..Len(workers) : workers[w].at = "fetching" /\ workers[w].index = i - 1 }
SleepingAt(i) ==
    { w \in 1..Len(workers) : workers[w].at = "sleeping" /\ workers[w].index = i - 1 }

\* the fetches issued for the path at position i: the finished ones and the
\* one in flight
IssuedFor(i) == Len(fetchLog[i]) + Cardinality(FetchingAt(i))

\* the failures classified retryable: of the three a fetch throws here, the
\* Error whose message names a timeout
ClassifiedRetryable(outcome) == outcome.error = ErrTimeout

Failure(outcome) == ~ outcome.resolved

\* the path at position i has failed for good: its last attempt failed and
\* was not retryable or was the last one allowed
FailedForGood(i) ==
    /\ fetchLog[i] # <<>>
    /\ Failure(fetchLog[i][Len(fetchLog[i])])
    /\ \/ ~ ClassifiedRetryable(fetchLog[i][Len(fetchLog[i])])
       \/ Len(fetchLog[i]) = AttemptCeiling

-----------------------------------------------------------------------------
(* C28: in getSelectedFileContents each path is fetched at most
   maxRetries + 1 times (4 by default): a failure classified non-retryable
   ends the fetching of the path with that attempt, retryable failures are
   retried until the ceiling, and in both cases the call fails with the one
   kind GITHUB_FETCH_FAILED carrying the offending path; a successful
   attempt ends the retries for its path. *)
C28_RetriesBoundedAndClassified ==
    FetchStarted =>
      /\ \A i \in 1..Len(fetchLog) :
            /\ IssuedFor(i) <= AttemptCeiling
            \* an attempt is followed by another only after a retryable failure
            /\ \A k \in 1..(IssuedFor(i) - 1) :
                  Failure(fetchLog[i][k]) /\ ClassifiedRetryable(fetchLog[i][k])
            \* a retryable failure below the ceiling is being retried
            /\ ( /\ fetchLog[i] # <<>>
                 /\ Failure(fetchLog[i][Len(fetchLog[i])])
                 /\ ~ FailedForGood(i)
                 /\ FetchingAt(i) = {} )
                  => SleepingAt(i) # {}
            \* a failure for good ends the path and fails the call
            /\ FailedForGood(i) =>
                  /\ FetchingAt(i) = {} /\ SleepingAt(i) = {}
                  /\ fetchOut # <<>>
                  /\ ~ fetchOut[1].ok
      /\ \A k \in 1..Len(fetchOut) :
            IF fetchOut[k].ok
            THEN \A i \in 1..Len(fetchLog) : ~ FailedForGood(i)
            ELSE /\ fetchOut[k].code = "GITHUB_FETCH_FAILED"
                 /\ \E i \in 1..Len(fetchLog) :
                       FailedForGood(i) /\ fetchOut[k].path = EligiblePaths[i]

\* by default four timeouts in a row on README.md fail the call with that
\* path
C28_Witness ==
    /\ fetchIn.maxRetries = <<>>
    /\ fetchIn.paths = <<PathLogin, PathReadme>>
    /\ Len(fetchLog) = 2
    /\ fetchLog[1] = << AttemptResolved >>
    /\ fetchLog[2] = [k \in 1..4 |-> AttemptRejected(ErrTimeout)]
    /\ fetchOut = << FetchFailed(PathReadme) >>

-----------------------------------------------------------------------------
(* C29: under every interleaving of the worker loops every unique eligible
   path is claimed by exactly one worker, none skipped and none claimed
   twice; at most min(max(1, concurrency), 20) fetches are in flight at any
   time; and when no fetch fails the returned list holds the fetched files in
   the input order of the unique paths, whatever the order in which the
   fetches complete. *)

\* the bound on fetches in flight, concurrency being 8 when not given
InFlightBound ==
    Min(Max(1, IF fetchIn.concurrency = <<>> THEN 8 ELSE fetchIn.concurrency[1]), 20)

InFlight == { w \in 1..Len(workers) : workers[w].at = "fetching" }

NoWorkerThrew == \A w \in 1..Len(workers) : workers[w].at # "threw"
AllWorkersDone == FetchStarted /\ \A w \in 1..Len(workers) : workers[w].at = "done"

\* the file of an eligible path, or nothing when it has no returnable content
FileOf(path) == { file \in Range(RepoBlobs) : file.path = path /\ file.size <= 150000 }

\* the files of the eligible paths, in the order of the paths
RECURSIVE FilesInOrder(_)
FilesInOrder(paths) ==
    IF paths = <<>> THEN <<>>
    ELSE (IF FileOf(Head(paths)) = {} THEN <<>>
          ELSE << CHOOSE file \in FileOf(Head(paths)) : TRUE >>)
         \o FilesInOrder(Tail(paths))

C29_EachPathClaimedOnceInOrder ==
    FetchStarted =>
      \* the indexes are claimed one after the other, each once
      /\ \A k \in 1..Len(claimed) : claimed[k] = k - 1
      /\ Len(claimed) <= Len(EligiblePaths)
      /\ \A i \in 1..Len(EligiblePaths) :
            Cardinality(FetchingAt(i) \cup SleepingAt(i)) <= 1
      /\ Cardinality(InFlight) <= InFlightBound
      \* no worker has stopped on a failure: every path has been or will be claimed
      /\ (NoWorkerThrew /\ Len(claimed) < Len(EligiblePaths)) =>
            \E w \in 1..Len(workers) : workers[w].at \in {"fetching", "sleeping"}
      /\ AllWorkersDone =>
            /\ Len(claimed) = Len(EligiblePaths)
            /\ fetchOut = << FetchReturned(FilesInOrder(EligiblePaths)) >>
      /\ \A k \in 1..Len(fetchOut) :
            fetchOut[k].ok => fetchOut[k].files = FilesInOrder(EligiblePaths)

\* two workers on three paths: the third path was claimed by the worker that
\* finished first, README.md resolved last and still comes first, and the
\* oversized src/big.ts is left out
C29_Witness ==
    /\ fetchIn.paths = <<PathReadme, PathBig, PathLogin>>
    /\ fetchIn.concurrency = <<2>>
    /\ claimed = <<0, 1, 2>>
    /\ AllWorkersDone
    /\ fetchLog[1] = << AttemptRejected(ErrTimeout), AttemptResolved >>
    /\ fetchOut = << FetchReturned(<<FileReadme, FileLogin>>) >>

-----------------------------------------------------------------------------
(* Specification of concurrent runs storing their records: each run builds
   its record and awaits writeAnalyzeCacheToKv, whose three Redis commands
   are three awaits, so commands of different runs interleave *)

MaxWriters == 3

\* what the runs extracted; the store never looks into a record's result
StoredExtraction ==
    [productSummary |-> ProductSummaryText, subsystems |-> <<SubsystemAuth>>]

Writer(at, record) == [at |-> at, record |-> record]

InitStore ==
    /\ CiteUnused
    /\ MapUnused
    /\ SigUnused
    /\ ExtUnused
    /\ RunUnused
    /\ ScoreUnused
    /\ WinUnused
    /\ FilterUnused
    /\ FetchUnused
    /\ writers = <<>>

\* a run for some head commit finishes drafting: it stamps its record with
\* new Date() and calls writeAnalyzeCache, which issues the first command
RunBuildsRecord ==
    /\ Len(writers) < MaxWriters
    /\ \E headSha \in HeadShas :
          writers' = Append(writers,
                            Writer("setRecord",
                                   CacheRecord(RepoOwner, RepoName, headSha, clock + 1,
                                               StoredExtraction, <<>>)))
    /\ clock' = clock + 1
    /\ UNCHANGED <<kv, exceptStore>>

\* Redis executes a run's redis.set of the record
KvSetsRecord(w) ==
    /\ writers[w].at = "setRecord"
    /\ kv' = SetCacheRecord(kv, writers[w].record)
    /\ writers' = [writers EXCEPT ![w].at = "setLatest"]
    /\ UNCHANGED <<clock, exceptStore>>

\* Redis executes a run's redis.set of the repository's latest pointer
KvSetsLatest(w) ==
    /\ writers[w].at = "setLatest"
    /\ kv' = SetRepoLatest(kv, writers[w].record)
    /\ writers' = [writers EXCEPT ![w].at = "zadd"]
    /\ UNCHANGED <<clock, exceptStore>>

\* Redis executes a run's redis.zadd: the run's write is complete
KvAddsRecent(w) ==
    /\ writers[w].at = "zadd"
    /\ kv' = AddRecentRepo(kv, writers[w].record)
    /\ writers' = [writers EXCEPT ![w].at = "done"]
    /\ UNCHANGED <<clock, exceptStore>>

NextStore ==
    \/ RunBuildsRecord
    \/ \E w \in 1..Len(writers) : KvSetsRecord(w)
    \/ \E w \in 1..Len(writers) : KvSetsLatest(w)
    \/ \E w \in 1..Len(writers) : KvAddsRecent(w)

SpecStore == InitStore /\ [][NextStore]_vars

-----------------------------------------------------------------------------
(* C30: the latest analysis of a repository *)

WritesCompleted ==
    /\ writers # <<>>
    /\ \A w \in 1..Len(writers) : writers[w].at = "done"

StoredForRepo ==
    { kv.records[k] : k \in { key \in DOMAIN kv.records :
                                 /\ kv.records[key].owner = RepoOwner
                                 /\ kv.records[key].repo = RepoName } }

LatestRead == readLatestAnalyzeCacheByRepoFromKv(kv, RepoOwner, RepoName)

\* C30: once every cache write for the repository has completed, in whatever
\* order their commands were executed, the latest read returns a stored record
\* of the repository and no stored record of it has a greater createdAt
C30_LatestHasGreatestCreatedAt ==
    WritesCompleted =>
        /\ LatestRead # <<>>
        /\ LatestRead[1] \in StoredForRepo
        /\ \A record \in StoredForRepo : record.createdAt <= LatestRead[1].createdAt

\* two runs for different head commits have both completed their writes and
\* the latest read returns one of their records
C30_Witness ==
    /\ WritesCompleted
    /\ Len(writers) = 2
    /\ writers[1].record.headSha = ShaFirst
    /\ writers[2].record.headSha = ShaJunk
    /\ LatestRead = <<writers[2].record>>

\* what does hold: the latest pointer never dangles, and it leads to the
\* record of the run whose pointer command was executed last
C30_LatestIsAStoredRecord ==
    (\E w \in 1..Len(writers) : writers[w].at \in {"zadd", "done"}) =>
        /\ LatestRead # <<>>
        /\ LatestRead[1] \in StoredForRepo

====
